---- MODULE Spec2Model ----
(***************************************************************************)
(* A model of CipherNote (VitekHub/encrypted-note-app): the AES-GCM field  *)
(* encryption module (encryption.ts), the password policy and the note     *)
(* composable.                                                             *)
(*                                                                         *)
(* Strings are sequences of UTF-16 code units (as JavaScript strings are), *)
(* byte arrays are sequences of 0..255.                                    *)
(***************************************************************************)
EXTENDS Integers, Sequences, FiniteSets, TLC

(***************************************************************************)
(* Bounds of the model.                                                    *)
(***************************************************************************)
\* Longest plaintext, in UTF-16 code units.
MaxTextLen == 2

(***************************************************************************)
(* encryption.ts: protocol constants.                                      *)
(***************************************************************************)
SALT_LEN == 16
IV_LEN == 12
MIN_BLOB_LEN == SALT_LEN + IV_LEN + 1
\* crypto.subtle.encrypt({name: 'AES-GCM', iv, additionalData}) is called
\* without tagLength: the Web Crypto default of 128 bits applies.
TAG_LEN == 16

(***************************************************************************)
(* Generic helpers on sequences.                                           *)
(***************************************************************************)
RECURSIVE SumTo(_, _)
SumTo(s, n) == IF n = 0 THEN 0 ELSE s[n] + SumTo(s, n - 1)
Sum(s) == SumTo(s, Len(s))

RECURSIVE WSumTo(_, _)
WSumTo(s, n) == IF n = 0 THEN 0 ELSE n * s[n] + WSumTo(s, n - 1)
WSum(s) == WSumTo(s, Len(s))

RECURSIVE Flatten(_)
Flatten(ss) == IF Len(ss) = 0 THEN <<>> ELSE Head(ss) \o Flatten(Tail(ss))

\* Uint8Array.prototype.slice(from) / slice(from, to): 0-based, end exclusive,
\* clamped to the array.
Slice(bytes, from, to) ==
    LET hi == IF to > Len(bytes) THEN Len(bytes) ELSE to
    IN  IF from >= hi THEN <<>> ELSE SubSeq(bytes, from + 1, hi)

\* All sequences over S of length at most n.
RECURSIVE SeqsUpTo(_, _)
SeqsUpTo(S, n) ==
    IF n = 0 THEN {<<>>}
    ELSE LET shorter == SeqsUpTo(S, n - 1)
         IN  shorter \cup {Append(s, c) : s \in {t \in shorter : Len(t) = n - 1}, c \in S}

(***************************************************************************)
(* TextEncoder / TextDecoder (textToBuffer, bufferToText).                 *)
(* The model's code units are below U+10000 and include no low surrogate,  *)
(* so every surrogate met is unpaired and no 4-byte form arises.           *)
(***************************************************************************)
REPLACEMENT == 65533      \* U+FFFD
BOM == 65279              \* U+FEFF
IsSurrogate(cu) == cu >= 55296 /\ cu <= 57343

\* UTF-8 of one code unit; an unpaired surrogate is encoded as U+FFFD.
Utf8Unit(cu) ==
    LET cp == IF IsSurrogate(cu) THEN REPLACEMENT ELSE cu
    IN  IF cp < 128 THEN <<cp>>
        ELSE IF cp < 2048 THEN <<192 + (cp \div 64), 128 + (cp % 64)>>
        ELSE <<224 + (cp \div 4096), 128 + ((cp \div 64) % 64), 128 + (cp % 64)>>

\* textToBuffer(text): new TextEncoder().encode(text)
textToBuffer(text) == Flatten([i \in 1..Len(text) |-> Utf8Unit(text[i])])

IsCont(b) == b >= 128 /\ b < 192

\* The UTF-8 decoder proper: malformed input yields U+FFFD (fatal: false).
RECURSIVE Utf8Decode(_, _)
Utf8Decode(bytes, i) ==
    IF i > Len(bytes) THEN <<>>
    ELSE LET b == bytes[i]
             n == Len(bytes)
         IN  IF b < 128 THEN <<b>> \o Utf8Decode(bytes, i + 1)
             ELSE IF b >= 194 /\ b < 224 /\ i + 1 <= n /\ IsCont(bytes[i + 1])
                  THEN <<(b - 192) * 64 + (bytes[i + 1] - 128)>> \o Utf8Decode(bytes, i + 2)
             ELSE IF b >= 224 /\ b < 240 /\ i + 2 <= n /\ IsCont(bytes[i + 1]) /\ IsCont(bytes[i + 2])
                     /\ (b - 224) * 4096 + (bytes[i + 1] - 128) * 64 >= 2048
                     /\ ~IsSurrogate((b - 224) * 4096 + (bytes[i + 1] - 128) * 64 + (bytes[i + 2] - 128))
                  THEN <<(b - 224) * 4096 + (bytes[i + 1] - 128) * 64 + (bytes[i + 2] - 128)>>
                       \o Utf8Decode(bytes, i + 3)
             ELSE <<REPLACEMENT>> \o Utf8Decode(bytes, i + 1)

\* bufferToText(buffer): new TextDecoder().decode(buffer). The decoder is
\* built with the default ignoreBOM: false, so a leading byte order mark
\* (EF BB BF) is consumed and not part of the result.
bufferToText(bytes) ==
    LET body == IF Len(bytes) >= 3 /\ bytes[1] = 239 /\ bytes[2] = 187 /\ bytes[3] = 191
                THEN SubSeq(bytes, 4, Len(bytes)) ELSE bytes
    IN  Utf8Decode(body, 1)

(***************************************************************************)
(* js-base64: fromUint8Array / toUint8Array.                               *)
(***************************************************************************)
PAD == 61                 \* '='
\* The base64 alphabet A-Z a-z 0-9 + /
B64Char(v) ==
    IF v < 26 THEN 65 + v
    ELSE IF v < 52 THEN 97 + (v - 26)
    ELSE IF v < 62 THEN 48 + (v - 52)
    ELSE IF v = 62 THEN 43 ELSE 47

IsB64Char(c) ==
    \/ (c >= 65 /\ c <= 90) \/ (c >= 97 /\ c <= 122) \/ (c >= 48 /\ c <= 57)
    \/ c = 43 \/ c = 47

B64Index(c) ==
    IF c >= 65 /\ c <= 90 THEN c - 65
    ELSE IF c >= 97 /\ c <= 122 THEN c - 97 + 26
    ELSE IF c >= 48 /\ c <= 57 THEN c - 48 + 52
    ELSE IF c = 43 THEN 62 ELSE 63

\* fromUint8Array(u8a): standard base64 with '=' padding.
fromUint8Array(bytes) ==
    LET n == Len(bytes)
        groups == (n + 2) \div 3
        at(k) == IF k <= n THEN bytes[k] ELSE 0
        ch(i) ==
            LET g == (i - 1) \div 4
                k == (i - 1) % 4
                b0 == at(3 * g + 1)
                b1 == at(3 * g + 2)
                b2 == at(3 * g + 3)
            IN  IF k = 0 THEN B64Char(b0 \div 4)
                ELSE IF k = 1 THEN B64Char((b0 % 4) * 16 + (b1 \div 16))
                ELSE IF k = 2 THEN (IF 3 * g + 2 > n THEN PAD
                                    ELSE B64Char((b1 % 16) * 4 + (b2 \div 64)))
                ELSE (IF 3 * g + 3 > n THEN PAD ELSE B64Char(b2 % 64))
    IN  [i \in 1..(4 * groups) |-> ch(i)]

\* _unURI then _tidyB64: '-' and '_' become '+' and '/', and every character
\* outside the alphabet (padding included) is dropped.
TidyB64(str) ==
    LET unuri == [i \in 1..Len(str) |->
                    IF str[i] = 45 THEN 43 ELSE IF str[i] = 95 THEN 47 ELSE str[i]]
    IN  SelectSeq(unuri, IsB64Char)

\* Decoding the tidied text throws only in a browser (atob) and only when one
\* sextet is left over; Node's Buffer.from(a, 'base64') drops that sextet.
Base64Throws(str, hasBuffer) == ~hasBuffer /\ Len(TidyB64(str)) % 4 = 1

\* toUint8Array(str), where it returns.
toUint8Array(str) ==
    LET t == TidyB64(str)
        m == Len(t)
        r == m % 4
        n == (m \div 4) * 3 + (IF r = 2 THEN 1 ELSE IF r = 3 THEN 2 ELSE 0)
        sx(k) == IF k <= m THEN B64Index(t[k]) ELSE 0
        byte(j) ==
            LET g == (j - 1) \div 3
                k == (j - 1) % 3
                s0 == sx(4 * g + 1)
                s1 == sx(4 * g + 2)
                s2 == sx(4 * g + 3)
                s3 == sx(4 * g + 4)
            IN  IF k = 0 THEN s0 * 4 + (s1 \div 16)
                ELSE IF k = 1 THEN (s1 % 16) * 16 + (s2 \div 4)
                ELSE (s2 % 4) * 64 + s3
    IN  [j \in 1..n |-> byte(j)]

(***************************************************************************)
(* The platform's primitives as encryption.ts uses them.                   *)
(***************************************************************************)
\* crypto.getRandomValues(new Uint8Array(n)): any n bytes. The model draws
\* from two representative arrays (all 255, and a ramp).
RandomBytes(n) == { [i \in 1..n |-> 255], [i \in 1..n |-> (37 * i + 11) % 256] }

\* AES-256-GCM as an authenticated cipher: the body is the plaintext under a
\* keystream of (key, iv), and the 16-byte tag is a fingerprint of the key,
\* the iv, the additional data and the body. The fingerprint stands for
\* GHASH: it changes with every single-byte change of any of its inputs.
Keystream(key, iv, i) == (Sum(key.password) + WSum(key.salt) + WSum(iv) + 7 * i) % 256

AesGcmTag(key, iv, additionalData, body) ==
    << Len(key.password) % 256, Sum(key.password) % 256, WSum(key.password) % 256,
       Sum(key.salt) % 256, WSum(key.salt) % 256,
       Len(iv) % 256, Sum(iv) % 256, WSum(iv) % 256,
       Len(additionalData) % 256, Sum(additionalData) % 256, WSum(additionalData) % 256,
       Len(body) % 256, Sum(body) % 256, WSum(body) % 256, 0, 0 >>

\* crypto.subtle.encrypt({name: 'AES-GCM', iv, additionalData}, key, data)
AesGcmEncrypt(key, iv, additionalData, data) ==
    LET body == [i \in 1..Len(data) |-> (data[i] + Keystream(key, iv, i)) % 256]
    IN  body \o AesGcmTag(key, iv, additionalData, body)

\* crypto.subtle.decrypt(...): rejects (OperationError) unless the tag verifies.
AesGcmDecrypt(key, iv, additionalData, data) ==
    IF Len(data) < TAG_LEN THEN [ok |-> FALSE, plain |-> <<>>]
    ELSE LET body == SubSeq(data, 1, Len(data) - TAG_LEN)
             tag == SubSeq(data, Len(data) - TAG_LEN + 1, Len(data))
         IN  IF tag = AesGcmTag(key, iv, additionalData, body)
             THEN [ok |-> TRUE,
                   plain |-> [i \in 1..Len(body) |-> (body[i] - Keystream(key, iv, i)) % 256]]
             ELSE [ok |-> FALSE, plain |-> <<>>]

(***************************************************************************)
(* encryption.ts                                                           *)
(***************************************************************************)
\* concatToBase64(...arrays)
concatToBase64(arrays) == fromUint8Array(Flatten(arrays))

\* Variants of parseBlob's length check: one byte laxer, and one that asks for
\* a byte of ciphertext body on top of the tag.
BlobTooShort_Lax(bytes) == Len(bytes) < SALT_LEN + IV_LEN
BlobTooShort_Strict(bytes) == Len(bytes) < SALT_LEN + IV_LEN + TAG_LEN + 1

\* parseBlob's length check.
BlobTooShort(bytes) == Len(bytes) < MIN_BLOB_LEN

\* parseBlob(value): the error it throws ("" when it returns) and the bytes.
parseBlob(value, hasBuf) ==
    IF Base64Throws(value, hasBuf)
    THEN [thrown |-> "InvalidCharacterError", bytes |-> <<>>]
    ELSE LET bytes == toUint8Array(value)
         IN  IF BlobTooShort(bytes)
             THEN [thrown |-> "Invalid encrypted format", bytes |-> <<>>]
             ELSE [thrown |-> "", bytes |-> bytes]

\* Variant of deriveKey that leaves the salt out of the derivation.
deriveKey_Unsalted(password, salt) == [password |-> textToBuffer(password), salt |-> <<>>]

\* deriveKey(password, salt): Argon2id over the password's UTF-8 bytes and
\* the salt, imported as a non-extractable AES-GCM key. The key is the pair
\* it is derived from (Argon2id is taken to be collision-free).
deriveKey(password, salt) == [password |-> textToBuffer(password), salt |-> salt]

\* Variant that binds no context to the ciphertext.
additionalDataOf_Unbound(aad) == <<>>

\* additionalData: textToBuffer(aad), in encryptField and in decryptField.
additionalDataOf(aad) == textToBuffer(aad)

\* Variant of encryptField that encrypts under a fixed salt and a fixed iv.
encryptFieldWith_Fixed(salt, iv, plaintext, password, aad) ==
    LET salt0 == [i \in 1..SALT_LEN |-> 0]
        iv0 == [i \in 1..IV_LEN |-> 0]
        key == deriveKey(password, salt0)
        ciphertext == AesGcmEncrypt(key, iv0, additionalDataOf(aad), textToBuffer(plaintext))
    IN  [plaintext |-> plaintext, password |-> password, aad |-> aad,
         salt |-> salt, iv |-> iv, ciphertext |-> ciphertext,
         token |-> concatToBase64(<<salt0, iv0, ciphertext>>)]

\* encryptField(plaintext, password, aad), given the salt and the iv that its
\* two crypto.getRandomValues calls returned.
encryptFieldWith(salt, iv, plaintext, password, aad) ==
    LET key == deriveKey(password, salt)
        ciphertext == AesGcmEncrypt(key, iv, additionalDataOf(aad), textToBuffer(plaintext))
    IN  [plaintext |-> plaintext, password |-> password, aad |-> aad,
         salt |-> salt, iv |-> iv, ciphertext |-> ciphertext,
         token |-> concatToBase64(<<salt, iv, ciphertext>>)]

\* Variant of the slices with the iv taken one byte late.
SplitBlob_Shifted(raw) ==
    [salt |-> Slice(raw, 0, SALT_LEN),
     iv |-> Slice(raw, SALT_LEN + 1, SALT_LEN + IV_LEN + 1),
     ciphertext |-> Slice(raw, SALT_LEN + IV_LEN + 1, Len(raw))]

\* decryptField's three slices of the decoded blob.
SplitBlob(raw) ==
    [salt |-> Slice(raw, 0, SALT_LEN),
     iv |-> Slice(raw, SALT_LEN, SALT_LEN + IV_LEN),
     ciphertext |-> Slice(raw, SALT_LEN + IV_LEN, Len(raw))]

\* decryptField(encryptedBlob, password, aad): its outcome ("ok", or the error
\* it throws), the text it returns and the steps it ran, in order.
decryptField(encryptedBlob, password, aad, hasBuf) ==
    LET parsed == parseBlob(encryptedBlob, hasBuf)
    IN  IF parsed.thrown # ""
        THEN [outcome |-> parsed.thrown, text |-> <<>>, steps |-> <<"parseBlob">>]
        ELSE LET parts == SplitBlob(parsed.bytes)
                 key == deriveKey(password, parts.salt)
                 opened == AesGcmDecrypt(key, parts.iv, additionalDataOf(aad), parts.ciphertext)
             IN  IF opened.ok
                 THEN [outcome |-> "ok", text |-> bufferToText(opened.plain),
                       steps |-> <<"parseBlob", "deriveKey", "decrypt">>]
                 ELSE [outcome |-> "OperationError", text |-> <<>>,
                       steps |-> <<"parseBlob", "deriveKey", "decrypt">>]

\* isEncrypted(value): its result and the steps it ran.
isEncrypted(value, hasBuf) ==
    IF Len(value) = 0 THEN [result |-> FALSE, steps |-> <<>>]
    ELSE [result |-> parseBlob(value, hasBuf).thrown = "", steps |-> <<"parseBlob">>]

(***************************************************************************)
(* String operations of JavaScript that passwordPolicy.ts uses.            *)
(***************************************************************************)
COLON == 58
LF == 10
CR == 13
IsWhiteSpace(c) == c \in {9, 10, 11, 12, 13, 32}
IsDigit(c) == c >= 48 /\ c <= 57

\* str.split(sep) for a one-character separator.
RECURSIVE SplitFrom(_, _, _, _)
SplitFrom(str, sep, start, i) ==
    IF i > Len(str) THEN << SubSeq(str, start, Len(str)) >>
    ELSE IF str[i] = sep
         THEN << SubSeq(str, start, i - 1) >> \o SplitFrom(str, sep, i + 1, i + 1)
         ELSE SplitFrom(str, sep, start, i + 1)
Split(str, sep) == SplitFrom(str, sep, 1, 1)

\* str.trim()
RECURSIVE TrimStart(_)
TrimStart(str) ==
    IF Len(str) > 0 /\ IsWhiteSpace(Head(str)) THEN TrimStart(Tail(str)) ELSE str
RECURSIVE TrimEnd(_)
TrimEnd(str) ==
    IF Len(str) > 0 /\ IsWhiteSpace(str[Len(str)])
    THEN TrimEnd(SubSeq(str, 1, Len(str) - 1)) ELSE str
Trim(str) == TrimEnd(TrimStart(str))

\* str.toUpperCase(), on ASCII.
ToUpperCase(str) == [i \in 1..Len(str) |-> IF str[i] >= 97 /\ str[i] <= 122 THEN str[i] - 32 ELSE str[i]]

\* A JavaScript number: an integer, or NaN.
Number(n) == [nan |-> FALSE, n |-> n]
NaN == [nan |-> TRUE, n |-> 0]
Truthy(v) == ~v.nan /\ v.n # 0

\* parseInt(str, 10): leading white space and a sign are skipped, the digits
\* up to the first other character are read, and no digit at all gives NaN.
RECURSIVE DigitsValue(_, _)
DigitsValue(str, acc) ==
    IF Len(str) > 0 /\ IsDigit(Head(str))
    THEN DigitsValue(Tail(str), 10 * acc + (Head(str) - 48))
    ELSE acc
parseInt(str) ==
    LET t == TrimStart(str)
        signed == Len(t) > 0 /\ t[1] \in {43, 45}
        digits == IF signed THEN Tail(t) ELSE t
    IN  IF Len(digits) = 0 \/ ~IsDigit(digits[1]) THEN NaN
        ELSE IF signed /\ t[1] = 45 THEN Number(0 - DigitsValue(digits, 0))
        ELSE Number(DigitsValue(digits, 0))

\* What parseInt makes of a missing argument: the text "undefined".
UNDEFINED == <<117, 110, 100, 101, 102, 105, 110, 101, 100>>

(***************************************************************************)
(* passwordPolicy.ts                                                       *)
(***************************************************************************)
MIN_PASSWORD_LENGTH == 8

\* "password", "Tr0ub4dor&3" and "hunter2" (seven characters)
PASSWORD == <<112, 97, 115, 115, 119, 111, 114, 100>>
TROUBADOR == <<84, 114, 48, 117, 98, 52, 100, 111, 114, 38, 51>>
HUNTER2 == <<104, 117, 110, 116, 101, 114, 50>>

\* crypto.subtle.digest('SHA-1', ...) as upper-case hex, for the passwords of
\* the model.
hashHex(password) ==
    CASE password = PASSWORD ->
           <<53, 66, 65, 65, 54, 49, 69, 52, 67, 57, 66, 57, 51, 70, 51, 70, 48, 54, 56, 50, 50, 53, 48, 66, 54, 67, 70, 56, 51, 51, 49, 66, 55, 69, 69, 54, 56, 70, 68, 56>>
      [] password = TROUBADOR ->
           <<56, 55, 52, 53, 55, 50, 69, 55, 65, 53, 65, 69, 54, 65, 52, 57, 52, 54, 54, 65, 54, 65, 67, 53, 55, 56, 66, 57, 56, 65, 68, 66, 65, 55, 56, 67, 54, 65, 65, 54>>
      [] password = HUNTER2 ->
           <<70, 51, 66, 66, 66, 68, 54, 54, 65, 54, 51, 68, 52, 66, 70, 49, 55, 52, 55, 57, 52, 48, 53, 55, 56, 69, 67, 51, 68, 48, 49, 48, 51, 53, 51, 48, 69, 50, 49, 68>>
hashPrefix(password) == SubSeq(hashHex(password), 1, 5)
hashSuffixOf(password) == SubSeq(hashHex(password), 6, 40)

\* The request of the lookup: fetch(`https://api.pwnedpasswords.com/range/${prefix}`,
\* { headers: { 'Add-Padding': 'true' } }). `range` is the part of the URL the
\* password decides.
RANGE_URL == "https://api.pwnedpasswords.com/range/"

\* Variant that asks for the whole hash.
RangeRequest_FullHash(password) ==
    [base |-> RANGE_URL, range |-> hashHex(password), headers |-> { <<"Add-Padding", "true">> }]

RangeRequest(password) ==
    [base |-> RANGE_URL, range |-> hashPrefix(password), headers |-> { <<"Add-Padding", "true">> }]

\* The row of the response body that decides the lookup: the first line whose
\* part before ':' is the suffix, after trim() and toUpperCase().
RECURSIVE MatchingLine(_, _)
MatchingLine(lines, suffix) ==
    IF Len(lines) = 0 THEN [found |-> FALSE, count |-> <<>>]
    ELSE LET parts == Split(Head(lines), COLON)
             count == IF Len(parts) >= 2 THEN parts[2] ELSE UNDEFINED
         IN  IF ToUpperCase(Trim(parts[1])) = suffix
             THEN [found |-> TRUE, count |-> count]
             ELSE MatchingLine(Tail(lines), suffix)

\* checkPwnedPassword(password), given what the digest and the fetch did:
\* response.kind is "digest-error" (crypto.subtle.digest throws),
\* "network-error" (fetch rejects), "not-ok" (res.ok is false), "text-error"
\* (res.text() rejects) or "ok" with the body in response.text. The try/catch
\* spans the whole body, so it returns in every case.
checkPwnedPassword(password, response) ==
    IF response.kind \in {"digest-error", "network-error", "text-error"} THEN Number(0)
    ELSE IF response.kind = "not-ok" THEN Number(0)
    ELSE LET row == MatchingLine(Split(response.text, LF), hashSuffixOf(password))
         IN  IF row.found THEN parseInt(row.count) ELSE Number(0)

\* Variant of the last test of getPasswordStrength that takes a digit for an
\* other character: /[^A-Za-z]/.
TestOther_Digits(password) ==
    \E i \in 1..Len(password) :
        ~((password[i] >= 65 /\ password[i] <= 90) \/ (password[i] >= 97 /\ password[i] <= 122))

\* The four regular expressions of getPasswordStrength, on UTF-16 code units:
\* /[A-Z]/, /[a-z]/, /[0-9]/ and /[^A-Za-z0-9]/.
TestUpper(password) == \E i \in 1..Len(password) : password[i] >= 65 /\ password[i] <= 90
TestLower(password) == \E i \in 1..Len(password) : password[i] >= 97 /\ password[i] <= 122
TestDigit(password) == \E i \in 1..Len(password) : IsDigit(password[i])
TestOther(password) ==
    \E i \in 1..Len(password) :
        ~((password[i] >= 65 /\ password[i] <= 90) \/ (password[i] >= 97 /\ password[i] <= 122)
          \/ IsDigit(password[i]))

\* getPasswordStrength(password): `!password` is the empty string; the score
\* is raised once per test that passes, in the order of the code.
getPasswordStrength(password) ==
    IF Len(password) = 0 THEN [level |-> "weak", score |-> 0, label |-> "Weak"]
    ELSE LET s1 == IF Len(password) >= 8 THEN 1 ELSE 0
             s2 == IF Len(password) >= 12 THEN s1 + 1 ELSE s1
             s3 == IF Len(password) >= 16 THEN s2 + 1 ELSE s2
             s4 == IF TestUpper(password) THEN s3 + 1 ELSE s3
             s5 == IF TestLower(password) THEN s4 + 1 ELSE s4
             s6 == IF TestDigit(password) THEN s5 + 1 ELSE s5
             score == IF TestOther(password) THEN s6 + 1 ELSE s6
             normalized == IF score < 7 THEN score ELSE 7
         IN  IF normalized <= 2 THEN [level |-> "weak", score |-> 1, label |-> "Weak"]
             ELSE IF normalized <= 4 THEN [level |-> "fair", score |-> 2, label |-> "Fair"]
             ELSE IF normalized <= 5 THEN [level |-> "good", score |-> 3, label |-> "Good"]
             ELSE [level |-> "strong", score |-> 4, label |-> "Strong"]

\* Variant of the length rule that lets seven characters pass.
TooShort_OffByOne(password) == Len(password) < MIN_PASSWORD_LENGTH - 1

\* validatePassword(password): its errors, given the lookup's response.
TooShort(password) == Len(password) < MIN_PASSWORD_LENGTH
validatePassword(password, response) ==
    IF TooShort(password) THEN << [rule |-> "length"] >>
    ELSE LET pwned == checkPwnedPassword(password, response)
         IN  IF Truthy(pwned) THEN << [rule |-> "breach", times |-> pwned.n] >> ELSE <<>>

\* validatePassword's result: { valid: errors.length === 0, errors }
validationResult(errors) == [valid |-> Len(errors) = 0, errors |-> errors]

(***************************************************************************)
(* State.                                                                  *)
(***************************************************************************)
VARIABLES
    hasBuffer,  \* js-base64's _hasBuffer: Node (the tests) or a browser (the app)
    input,      \* the caller's plaintext, password and aad
    enc,        \* the latest encryptField call: its arguments, draws and token
    call,       \* the call of the encryption module in hand and what it returned
    pol,        \* the validatePassword call in hand: its password, lookup and result
    localStorage,  \* the browser's localStorage: each key's item, <<>> when unset
    ui,         \* the refs of NoteEditor.vue and useEncryptedNote
    tasks,      \* the awaits and timers in flight, in the order they started
    form        \* the refs of the UnlockForm.vue that is mounted, and its timer

codecVars == <<hasBuffer, input, enc, call>>
policyVars == <<pol>>
appVars == <<localStorage, ui, tasks, form>>
vars == <<hasBuffer, input, enc, call, pol, localStorage, ui, tasks, form>>

(***************************************************************************)
(* The callers' inputs.                                                    *)
(***************************************************************************)
\* 'a', e-acute (two UTF-8 bytes), U+FEFF and an unpaired high surrogate.
PlainChars == {97, 233, BOM, 55296}
Plaintexts == SeqsUpTo(PlainChars, MaxTextLen)

\* "pw", "p\uD800", "p�"
PW == <<112, 119>>
Passwords == { PW, <<112, 55296>>, <<112, REPLACEMENT>> }

\* useEncryptedNote's aad 'TODO:note', "u\uD800", "u�"
AAD_NOTE == <<84, 79, 68, 79, 58, 110, 111, 116, 101>>
AADs == { AAD_NOTE, <<117, 55296>>, <<117, REPLACEMENT>> }

\* Every plaintext under the application's password and aad, and every
\* password and aad with the plaintexts "" and "a".
Inputs ==
    { [plaintext |-> p, password |-> PW, aad |-> AAD_NOTE] : p \in Plaintexts }
    \cup { [plaintext |-> p, password |-> k, aad |-> a] :
             p \in {<<>>, <<97>>}, k \in Passwords, a \in AADs }

NoToken == [token |-> <<>>, issued |-> FALSE]
NoCall == [op |-> "none"]
NoValidation == [phase |-> "idle"]

\* The application as it is mounted: nothing stored under the note's key, the
\* editor locked and empty.
STORAGE_KEY == "app-note"
NULL == "null"
FreshStorage == [k \in {STORAGE_KEY} |-> <<>>]
FreshUi ==
    [passwordInput |-> <<>>, noteText |-> <<>>, unlocked |-> FALSE, saveStatus |-> "",
     showDropConfirm |-> FALSE, error |-> NULL, loading |-> FALSE]
\* UnlockForm.vue as it is mounted. Its awaits of validatePassword in flight
\* are `checks`; `created` is what its latest 'unlock' of a new note went
\* with.
NoTimer == [pending |-> FALSE, value |-> <<>>]
NoCreate == [emitted |-> FALSE]
FreshForm ==
    [confirmPassword |-> <<>>, confirmMismatch |-> FALSE, policyErrors |-> <<>>,
     policyChecking |-> FALSE, policyDirty |-> FALSE, debounceTimer |-> NoTimer,
     checks |-> <<>>, created |-> NoCreate]
AppAtRest ==
    /\ localStorage = FreshStorage
    /\ ui = FreshUi
    /\ tasks = <<>>
    /\ form = FreshForm

\* The token with one byte of its decoded blob changed.
TamperByte(token, pos, delta) ==
    LET raw == toUint8Array(token)
    IN  fromUint8Array([raw EXCEPT ![pos] = (raw[pos] + delta) % 256])
TamperDeltas == {1}

\* encryption.test.ts: blob.slice(0, -4) + 'AAAA'
TamperTail(token) == SubSeq(token, 1, Len(token) - 4) \o <<65, 65, 65, 65>>

\* The token's text changed where the decoder does not look: a character
\* outside the alphabet added ('!', line feed, blank), the padding removed,
\* one more alphabet character appended, the unused low bits of the last
\* sextet set.
StripPadding(token) == SelectSeq(token, LAMBDA c : c # PAD)
SetSpareBits(token) ==
    LET m == Len(StripPadding(token))
        last == B64Index(token[m])
        spare == IF m % 4 = 2 THEN 15 ELSE IF m % 4 = 3 THEN 3 ELSE 0
    IN  [token EXCEPT ![m] = B64Char(last - (last % (spare + 1)) + spare)]
Rewordings(token) ==
    IF Len(token) = 0 THEN {}
    ELSE { token \o <<33>>, token \o <<10>>, <<32>> \o token, StripPadding(token),
           token \o <<65>>, SetSpareBits(token) } \ {token}

\* Strings that are no token: literals of encryption.test.ts and the token cut
\* short around the 29-byte minimum (36 characters decode to 27 bytes, 40 to 30).
TOOSHORT == <<116, 111, 111, 115, 104, 111, 114, 116>>
SHORT_B64 == <<100, 71, 57, 118, 99, 50, 104, 118, 99, 110, 81, 61>>
HELLO_WORLD == <<104, 101, 108, 108, 111, 32, 119, 111, 114, 108, 100>>
\* A sentence of forty letters and nine blanks.
SENTENCE == <<116, 104, 101, 32, 113, 117, 105, 99, 107, 32, 98, 114, 111, 119, 110, 32, 102, 111, 120, 32, 106, 117, 109, 112, 115, 32, 111, 118, 101, 114, 32, 116, 104, 101, 32, 108, 97, 122, 121, 32, 100, 111, 103, 32, 97, 103, 97, 105, 110>>
NonTokens(token) ==
    { <<>>, TOOSHORT, SHORT_B64, HELLO_WORLD, SENTENCE }
    \cup (IF Len(token) < 40 THEN {}
          ELSE { SubSeq(token, 1, k) : k \in 36..40 }
               \cup { SubSeq(token, 1, k) \o <<33>> : k \in {36, 39} })

Decrypted(how, blob, password, aad) ==
    LET r == decryptField(blob, password, aad, hasBuffer)
    IN  [op |-> "decryptField", how |-> how, blob |-> blob, password |-> password,
         aad |-> aad, outcome |-> r.outcome, text |-> r.text, steps |-> r.steps]

(***************************************************************************)
(* Actions: the calls of encryption.ts. The module keeps no state, so a    *)
(* run is one caller making one call at a time: Return drops the result in *)
(* hand before the next call.                                              *)
(***************************************************************************)
InitCodec ==
    /\ hasBuffer \in BOOLEAN
    /\ input \in Inputs
    /\ enc = NoToken
    /\ call = NoCall
    /\ pol = NoValidation
    /\ AppAtRest

\* encryptField(plaintext, password, aad); `before` is the call before it.
EncryptField ==
    /\ call = NoCall
    /\ \E salt \in RandomBytes(SALT_LEN), iv \in RandomBytes(IV_LEN) :
        enc' = encryptFieldWith(salt, iv, input.plaintext, input.password, input.aad)
                 @@ [issued |-> TRUE]
    /\ call' = [op |-> "encryptField", before |-> enc]
    /\ UNCHANGED <<hasBuffer, input, policyVars, appVars>>

\* decryptField(token, password, aad) on the latest token.
DecryptToken(password, aad) ==
    /\ call = NoCall /\ enc.issued
    /\ call' = Decrypted("token", enc.token, password, aad)
    /\ UNCHANGED <<hasBuffer, input, enc, policyVars, appVars>>

\* decryptField on the token with one byte of the blob changed.
DecryptTampered(pos, delta) ==
    /\ call = NoCall /\ enc.issued
    /\ pos \in 1..Len(toUint8Array(enc.token))
    /\ call' = Decrypted("byte", TamperByte(enc.token, pos, delta), enc.password, enc.aad)
                @@ [pos |-> pos]
    /\ UNCHANGED <<hasBuffer, input, enc, policyVars, appVars>>

\* decryptField on the token with its last four characters replaced.
DecryptTamperedTail ==
    /\ call = NoCall /\ enc.issued
    /\ call' = Decrypted("tail", TamperTail(enc.token), enc.password, enc.aad)
    /\ UNCHANGED <<hasBuffer, input, enc, policyVars, appVars>>

\* decryptField on the token's text reworded.
DecryptReworded(blob) ==
    /\ call = NoCall /\ enc.issued
    /\ call' = Decrypted("text", blob, enc.password, enc.aad)
    /\ UNCHANGED <<hasBuffer, input, enc, policyVars, appVars>>

\* decryptField on a string that is no token.
DecryptNonToken(blob) ==
    /\ call = NoCall /\ enc.issued
    /\ call' = Decrypted("other", blob, enc.password, enc.aad)
    /\ UNCHANGED <<hasBuffer, input, enc, policyVars, appVars>>

\* isEncrypted(value)
IsEncrypted(value) ==
    /\ call = NoCall /\ enc.issued
    /\ call' = [op |-> "isEncrypted", value |-> value]
                @@ isEncrypted(value, hasBuffer)
    /\ UNCHANGED <<hasBuffer, input, enc, policyVars, appVars>>

\* The caller takes the result.
Return ==
    /\ call # NoCall
    /\ call' = NoCall
    /\ UNCHANGED <<hasBuffer, input, enc, policyVars, appVars>>

MaxBlobLen == SALT_LEN + IV_LEN + 3 * MaxTextLen + TAG_LEN

NextCodec ==
    \/ EncryptField
    \/ \E k \in Passwords, a \in AADs : DecryptToken(k, a)
    \/ \E pos \in 1..MaxBlobLen, d \in TamperDeltas : DecryptTampered(pos, d)
    \/ DecryptTamperedTail
    \/ \E b \in Rewordings(enc.token) : DecryptReworded(b)
    \/ \E b \in NonTokens(enc.token) : DecryptNonToken(b)
    \/ \E v \in {enc.token} \cup Rewordings(enc.token) \cup NonTokens(enc.token) : IsEncrypted(v)
    \/ Return

Spec == InitCodec /\ [][NextCodec]_vars

(***************************************************************************)
(* Actions: validatePassword and the breach lookup it awaits.              *)
(***************************************************************************)
MaxBodyLines == 2

PolicyPasswords == { PASSWORD, TROUBADOR, HUNTER2 }

\* Lines a response body may hold, for a lookup of `password`: rows of the
\* range API ("SUFFIX:count", with or without the carriage return the API
\* ends its lines with), the password's row in lower case and indented, rows
\* of other suffixes, and rows that are no rows: the suffix without a count,
\* with an empty count, with a count that is no number or only starts as one,
\* a negative count, markup, the empty line.
Row(suffix, count) == suffix \o <<COLON>> \o count
ToLowerCase(str) == [i \in 1..Len(str) |-> IF str[i] >= 65 /\ str[i] <= 90 THEN str[i] + 32 ELSE str[i]]
OtherSuffix(password) == hashSuffixOf(IF password = PASSWORD THEN TROUBADOR ELSE PASSWORD)
GoodLines(password) ==
    { Row(hashSuffixOf(password), <<51>>),
      Row(hashSuffixOf(password), <<49, 50, CR>>),
      Row(hashSuffixOf(password), <<48>>),
      Row(<<32>> \o ToLowerCase(hashSuffixOf(password)), <<55>>),
      Row(OtherSuffix(password), <<57>>) }
BadLines(password) ==
    { hashSuffixOf(password),
      Row(hashSuffixOf(password), <<>>),
      Row(hashSuffixOf(password), <<120>>),
      Row(hashSuffixOf(password), <<51, 120>>),
      Row(hashSuffixOf(password), <<45, 53>>),
      OtherSuffix(password),
      <<60, 104, 116, 109, 108, 62>>,
      <<>> }
RECURSIVE Join(_)
Join(lines) ==
    IF Len(lines) = 0 THEN <<>>
    ELSE IF Len(lines) = 1 THEN lines[1]
    ELSE lines[1] \o <<LF>> \o Join(Tail(lines))
Bodies(password) ==
    { Join(ls) : ls \in SeqsUpTo(GoodLines(password) \cup BadLines(password), MaxBodyLines) }

\* A row of the range API: 35 hex digits, ':' and a count in digits, white
\* space around them aside. A body without any row is malformed.
IsHexDigit(c) == IsDigit(c) \/ (c >= 65 /\ c <= 70) \/ (c >= 97 /\ c <= 102)
IsRow(line) ==
    LET l == Trim(line)
    IN  /\ Len(l) >= 37
        /\ \A i \in 1..35 : IsHexDigit(l[i])
        /\ l[36] = COLON
        /\ \A i \in 37..Len(l) : IsDigit(l[i])
MalformedBody(text) == \A i \in DOMAIN Split(text, LF) : ~IsRow(Split(text, LF)[i])

\* The passwords getPasswordStrength is asked about: of each length around
\* the three thresholds, made of the characters of each choice among an
\* upper-case letter, a lower-case letter, a digit, '!' and e-acute, in turn.
MaxPasswordLen == 17
StrengthLengths == {0, 1, 2, 7, 8, 11, 12, 15, 16, MaxPasswordLen}
ClassChars == <<65, 97, 49, 33, 233>>
RECURSIVE Nth(_, _)
Nth(S, k) ==
    LET m == CHOOSE x \in S : \A y \in S : x <= y
    IN  IF k = 1 THEN m ELSE Nth(S \ {m}, k - 1)
PasswordOf(len, classes) ==
    [i \in 1..len |-> ClassChars[Nth(classes, ((i - 1) % Cardinality(classes)) + 1)]]
StrengthPasswords ==
    { PasswordOf(len, classes) : len \in StrengthLengths,
                                 classes \in (SUBSET (1..Len(ClassChars))) \ {{}} }

InitPolicy ==
    /\ hasBuffer = FALSE
    /\ input = [plaintext |-> <<>>, password |-> PW, aad |-> AAD_NOTE]
    /\ enc = NoToken
    /\ call = NoCall
    /\ pol = NoValidation
    /\ AppAtRest

\* validatePassword(password) up to its await: a password under the minimum
\* length is refused without a lookup.
ValidatePassword(password) ==
    /\ pol.phase = "idle"
    /\ pol' = IF TooShort(password)
              THEN [phase |-> "done", password |-> password, looked |-> FALSE,
                    sent |-> <<>>,
                    valid |-> validationResult(validatePassword(password, [kind |-> "none"])).valid,
                    errors |-> validatePassword(password, [kind |-> "none"])]
              ELSE [phase |-> "lookup", password |-> password]
    /\ UNCHANGED <<codecVars, appVars>>

\* The lookup ends: checkPwnedPassword returns and validatePassword with it.
\* `sent` holds the requests the call made: the one fetch, unless the digest
\* threw before it.
Looked(response) ==
    [phase |-> "done", password |-> pol.password, looked |-> TRUE, response |-> response,
     sent |-> IF response.kind = "digest-error" THEN <<>> ELSE << RangeRequest(pol.password) >>,
     returned |-> checkPwnedPassword(pol.password, response),
     valid |-> validationResult(validatePassword(pol.password, response)).valid,
     errors |-> validatePassword(pol.password, response)]

\* crypto.subtle.digest throws (no crypto.subtle outside a secure context).
DigestFails ==
    /\ pol.phase = "lookup"
    /\ pol' = Looked([kind |-> "digest-error"])
    /\ UNCHANGED <<codecVars, appVars>>

\* fetch rejects.
FetchFails ==
    /\ pol.phase = "lookup"
    /\ pol' = Looked([kind |-> "network-error"])
    /\ UNCHANGED <<codecVars, appVars>>

\* The response is not OK.
ResponseNotOk ==
    /\ pol.phase = "lookup"
    /\ pol' = Looked([kind |-> "not-ok"])
    /\ UNCHANGED <<codecVars, appVars>>

\* res.text() rejects.
ResponseTextFails ==
    /\ pol.phase = "lookup"
    /\ pol' = Looked([kind |-> "text-error"])
    /\ UNCHANGED <<codecVars, appVars>>

\* The response is OK and its body is `text`.
ResponseBody(text) ==
    /\ pol.phase = "lookup"
    /\ pol' = Looked([kind |-> "ok", text |-> text])
    /\ UNCHANGED <<codecVars, appVars>>

\* getPasswordStrength(password): it runs to its return in one step, without
\* an await and without a request.
GetPasswordStrength(password) ==
    /\ pol.phase = "idle"
    /\ pol' = [phase |-> "strength", password |-> password, sent |-> <<>>,
               strength |-> getPasswordStrength(password)]
    /\ UNCHANGED <<codecVars, appVars>>

\* The caller takes the result.
PolicyReturn ==
    /\ pol.phase \in {"done", "strength"}
    /\ pol' = NoValidation
    /\ UNCHANGED <<codecVars, appVars>>

NextPolicy ==
    \/ \E p \in PolicyPasswords : ValidatePassword(p)
    \/ \E p \in StrengthPasswords : GetPasswordStrength(p)
    \/ DigestFails
    \/ FetchFails
    \/ ResponseNotOk
    \/ ResponseTextFails
    \/ \E text \in (IF pol.phase = "lookup" THEN Bodies(pol.password) ELSE {}) : ResponseBody(text)
    \/ PolicyReturn

SpecPolicy == InitPolicy /\ [][NextPolicy]_vars

(***************************************************************************)
(* Actions: the note editor (NoteEditor.vue with useEncryptedNote). A      *)
(* handler runs to its first await in one step; the await is a task in     *)
(* flight, and its completion runs the rest of the handler in a later      *)
(* step.                                                                   *)
(***************************************************************************)
MaxInFlight == 1

AppPasswords == { <<>>, PASSWORD, TROUBADOR }
AppTexts == { <<>>, <<97>> }
\* The salt and the iv of one encryptField call, drawn together.
Draws == { [salt |-> [i \in 1..SALT_LEN |-> 255], iv |-> [i \in 1..IV_LEN |-> 255]],
           [salt |-> [i \in 1..SALT_LEN |-> (37 * i + 11) % 256],
            iv |-> [i \in 1..IV_LEN |-> (37 * i + 11) % 256]] }

InitApp ==
    /\ hasBuffer = FALSE
    /\ input = [plaintext |-> <<>>, password |-> PW, aad |-> AAD_NOTE]
    /\ enc = NoToken
    /\ call = NoCall
    /\ pol = NoValidation
    /\ AppAtRest

\* localStorage.getItem(key): the item, NULL when unset.
HasItem(key) == Len(localStorage[key]) = 1
\* "TODO:title", the aad of another field.
AAD_OTHER == <<84, 79, 68, 79, 58, 116, 105, 116, 108, 101>>
\* The note "a" saved under "password".
STORED_NOTE ==
    encryptFieldWith([i \in 1..SALT_LEN |-> 255], [i \in 1..IV_LEN |-> 255],
                     <<97>>, PASSWORD, AAD_NOTE).token
\* The same text under the same password, encrypted for the other field.
STORED_OTHER_AAD ==
    encryptFieldWith([i \in 1..SALT_LEN |-> 255], [i \in 1..IV_LEN |-> 255],
                     <<97>>, PASSWORD, AAD_OTHER).token
\* The note with a byte of its salt, of its iv, of its ciphertext or of its
\* tag changed, and with its last four characters replaced.
STORED_TAMPERED ==
    { TamperByte(STORED_NOTE, pos, 1) : pos \in {1, SALT_LEN + 1, SALT_LEN + IV_LEN + 1,
                                                 SALT_LEN + IV_LEN + 1 + TAG_LEN} }
    \cup { TamperTail(STORED_NOTE) }
StoredItems == { STORED_NOTE, STORED_OTHER_AAD } \cup STORED_TAMPERED

\* useEncryptedNote.hasNote()
hasNote ==
    HasItem(STORAGE_KEY) /\ isEncrypted(localStorage[STORAGE_KEY][1], hasBuffer).result

Without(seq, i) == SubSeq(seq, 1, i - 1) \o SubSeq(seq, i + 1, Len(seq))

\* Variant of saveNote that stores the note as it is.
StoredValue_Plain(encrypted, plaintext, password) == plaintext

\* The value saveNote stores: the token encryptField returned.
StoredValue(encrypted, plaintext, password) == encrypted

\* UnlockForm's v-model: the password field changes.
TypePassword(p) ==
    /\ ~ui.unlocked
    /\ ui' = [ui EXCEPT !.passwordInput = p]
    /\ UNCHANGED <<localStorage, tasks, codecVars, policyVars, form>>

\* NoteArea's v-model: the note's text changes.
TypeNote(t) ==
    /\ ui.unlocked
    /\ ui' = [ui EXCEPT !.noteText = t]
    /\ UNCHANGED <<localStorage, tasks, codecVars, policyVars, form>>

\* `v-if="!unlocked"` turns false: the UnlockForm is unmounted, and the next
\* one is mounted anew. What the unmounted one still awaits cannot reach the
\* editor: its refs are not shown, and its emits are dropped.
Unmounted(f) == [FreshForm EXCEPT !.created = f.created]

\* handleUnlock, on UnlockForm's 'unlock', up to `await loadNote(...)`;
\* loadNote runs to `await decryptField(...)`. A task in flight holds in
\* `stale` whether handleLock or handleDrop has run since it started.
handleUnlock(f) ==
    IF ui.passwordInput = <<>> THEN form' = f /\ UNCHANGED <<ui, tasks>>
    ELSE IF hasNote
    THEN /\ ui' = [ui EXCEPT !.loading = TRUE, !.error = NULL]
         /\ tasks' = Append(tasks, [kind |-> "loadNote",
                                    stored |-> localStorage[STORAGE_KEY][1],
                                    password |-> ui.passwordInput, stale |-> FALSE])
         /\ form' = f
    ELSE /\ ui' = [ui EXCEPT !.unlocked = TRUE]
         /\ form' = Unmounted(f)
         /\ UNCHANGED tasks

\* The 'unlock' of the UnlockForm whose password field is bound to the
\* editor's passwordInput and that emits without a check of its own
\* (components/UnlockForm.vue).
HandleUnlock ==
    /\ ~ui.unlocked
    /\ (ui.passwordInput # <<>> /\ hasNote) => Len(tasks) < MaxInFlight
    /\ handleUnlock(form)
    /\ UNCHANGED <<localStorage, codecVars, policyVars>>

\* Variant of loadNote's catch that shows the error it caught.
LoadError_Leaky(outcome) == outcome

\* loadNote's catch: error.value for whatever decryptField threw.
LoadError(outcome) == "Wrong password or corrupted data."

\* Variant of handleUnlock that opens the editor whatever loadNote returned.
Opens_Always(outcome) == TRUE

\* handleUnlock's `result !== null`: loadNote returned the decrypted text.
Opens(outcome) == outcome = "ok"

\* decryptField settles: loadNote returns, and handleUnlock goes on.
LoadNoteSettles(i) ==
    /\ i \in DOMAIN tasks /\ tasks[i].kind = "loadNote"
    /\ LET r == decryptField(tasks[i].stored, tasks[i].password, AAD_NOTE, hasBuffer)
           returned == IF r.outcome = "ok"
                       THEN [ui EXCEPT !.loading = FALSE]
                       ELSE [ui EXCEPT !.loading = FALSE, !.error = LoadError(r.outcome)]
       IN  IF Opens(r.outcome)
           THEN /\ ui' = [returned EXCEPT !.noteText = r.text, !.unlocked = TRUE]
                /\ form' = IF ui.unlocked THEN form ELSE Unmounted(form)
           ELSE /\ ui' = returned
                /\ UNCHANGED form
    /\ tasks' = Without(tasks, i)
    /\ UNCHANGED <<localStorage, codecVars, policyVars>>

\* handleSave, on NoteArea's 'save', up to `await saveNote(...)`; saveNote
\* runs to `await encryptField(...)`.
HandleSave ==
    /\ ui.unlocked /\ ~ui.loading
    /\ Len(tasks) < MaxInFlight
    /\ ui' = [ui EXCEPT !.saveStatus = "", !.loading = TRUE, !.error = NULL]
    /\ tasks' = Append(tasks, [kind |-> "saveNote", plaintext |-> ui.noteText,
                               password |-> ui.passwordInput, stale |-> FALSE])
    /\ UNCHANGED <<localStorage, codecVars, policyVars, form>>

\* encryptField returns its token: saveNote stores it, and handleSave goes on
\* and starts the timer that clears the status.
SaveNoteStores(i) ==
    /\ i \in DOMAIN tasks /\ tasks[i].kind = "saveNote"
    /\ \E draw \in Draws :
        LET encrypted == encryptFieldWith(draw.salt, draw.iv, tasks[i].plaintext,
                                          tasks[i].password, AAD_NOTE).token
            value == StoredValue(encrypted, tasks[i].plaintext, tasks[i].password)
        IN  localStorage' = [localStorage EXCEPT ![STORAGE_KEY] = <<value>>]
    /\ IF ui.error = NULL
       THEN /\ ui' = [ui EXCEPT !.loading = FALSE, !.saveStatus = "Saved."]
            /\ tasks' = [tasks EXCEPT ![i] = [kind |-> "timer"]]
       ELSE /\ ui' = [ui EXCEPT !.loading = FALSE]
            /\ tasks' = Without(tasks, i)
    /\ UNCHANGED <<codecVars, policyVars, form>>

\* Variant of saveNote's catch that swallows what it caught.
SaveError_Swallowed == NULL

\* saveNote's catch: error.value for whatever encryptField or setItem threw.
SaveError == "Failed to save note."

\* encryptField rejects, or setItem throws (the quota is exceeded): saveNote
\* catches it.
SaveNoteFails(i) ==
    /\ i \in DOMAIN tasks /\ tasks[i].kind = "saveNote"
    /\ ui' = [ui EXCEPT !.loading = FALSE, !.error = SaveError]
    /\ tasks' = Without(tasks, i)
    /\ UNCHANGED <<localStorage, codecVars, policyVars, form>>

\* handleSave's setTimeout fires.
StatusTimerFires(i) ==
    /\ i \in DOMAIN tasks /\ tasks[i].kind = "timer"
    /\ ui' = [ui EXCEPT !.saveStatus = ""]
    /\ tasks' = Without(tasks, i)
    /\ UNCHANGED <<localStorage, codecVars, policyVars, form>>

\* The tasks in flight once the handler `by` has run: it leaves them
\* running. A loadNote is stale once the editor was locked or the note
\* dropped, a saveNote once the note was dropped.
Outlived(by) ==
    [i \in DOMAIN tasks |->
        IF tasks[i].kind = "loadNote" \/ (tasks[i].kind = "saveNote" /\ by = "drop")
        THEN [tasks[i] EXCEPT !.stale = TRUE]
        ELSE tasks[i]]

\* handleLock, on NoteArea's 'lock'.
HandleLock ==
    /\ ui.unlocked
    /\ ui' = [ui EXCEPT !.unlocked = FALSE, !.noteText = <<>>, !.passwordInput = <<>>,
                        !.error = NULL, !.saveStatus = ""]
    /\ tasks' = Outlived("lock")
    /\ UNCHANGED <<localStorage, codecVars, policyVars, form>>

\* UnlockForm's 'drop' (its button shows while a note exists).
RequestDrop ==
    /\ ~ui.unlocked /\ hasNote /\ ~ui.showDropConfirm
    /\ ui' = [ui EXCEPT !.showDropConfirm = TRUE]
    /\ UNCHANGED <<localStorage, tasks, codecVars, policyVars, form>>

\* ConfirmDialog's 'cancel'.
CancelDrop ==
    /\ ui.showDropConfirm
    /\ ui' = [ui EXCEPT !.showDropConfirm = FALSE]
    /\ UNCHANGED <<localStorage, tasks, codecVars, policyVars, form>>

\* handleDrop, on ConfirmDialog's 'confirm', with dropDatabase.
HandleDrop ==
    /\ ui.showDropConfirm
    /\ localStorage' = [localStorage EXCEPT ![STORAGE_KEY] = <<>>]
    /\ ui' = [ui EXCEPT !.error = NULL, !.showDropConfirm = FALSE, !.unlocked = FALSE,
                        !.noteText = <<>>, !.passwordInput = <<>>, !.saveStatus = ""]
    /\ tasks' = Outlived("drop")
    /\ UNCHANGED <<codecVars, policyVars, form>>

NextApp ==
    \/ \E p \in AppPasswords : TypePassword(p)
    \/ \E t \in AppTexts : TypeNote(t)
    \/ HandleUnlock
    \/ \E i \in 1..MaxInFlight : LoadNoteSettles(i)
    \/ HandleSave
    \/ \E i \in 1..MaxInFlight : SaveNoteStores(i)
    \/ \E i \in 1..MaxInFlight : SaveNoteFails(i)
    \/ \E i \in 1..MaxInFlight : StatusTimerFires(i)
    \/ HandleLock
    \/ RequestDrop
    \/ CancelDrop
    \/ HandleDrop

SpecApp == InitApp /\ [][NextApp]_vars

(***************************************************************************)
(* The note editor opened on a browser whose localStorage already holds an *)
(* item under the note's key: a note of an earlier session, or an item     *)
(* that something else wrote or changed since.                             *)
(***************************************************************************)
InitStored ==
    /\ hasBuffer = FALSE
    /\ input = [plaintext |-> <<>>, password |-> PW, aad |-> AAD_NOTE]
    /\ enc = NoToken
    /\ call = NoCall
    /\ pol = NoValidation
    /\ localStorage \in { [k \in {STORAGE_KEY} |-> <<item>>] : item \in StoredItems }
    /\ ui = FreshUi
    /\ tasks = <<>>
    /\ form = FreshForm

\* The sessions that only read the item: the user unlocks, edits, locks and
\* drops, and saves nothing.
NextStored ==
    \/ \E p \in AppPasswords : TypePassword(p)
    \/ \E t \in AppTexts : TypeNote(t)
    \/ HandleUnlock
    \/ \E i \in 1..MaxInFlight : LoadNoteSettles(i)
    \/ HandleLock
    \/ RequestDrop
    \/ CancelDrop
    \/ HandleDrop

SpecStored == InitStored /\ [][NextStored]_vars

(***************************************************************************)
(* The note editor with the UnlockForm.vue that checks a new password      *)
(* against the policy: as the user types, after a pause of 600 ms, and     *)
(* once more when the note is created. The form's events are the steps; an *)
(* await of validatePassword that needs no lookup (the password is too     *)
(* short) settles within the step that starts it, before any other event.  *)
(***************************************************************************)
MaxUnlocks == 2
MaxChecks == 2

FormPasswords == { <<>>, HUNTER2, PASSWORD }
\* What the lookup of a password's range can answer: a failure, or the row
\* of the password with a count of 3.
FormResponses(password) ==
    { [kind |-> "not-ok"], [kind |-> "ok", text |-> Row(hashSuffixOf(password), <<51>>)] }

\* The prop `noteExists`, hasNote() as the editor last rendered it.
noteExists == hasNote

\* isSubmitDisabled
isSubmitDisabled ==
    IF ui.loading \/ form.policyChecking \/ ui.passwordInput = <<>> THEN TRUE
    ELSE IF ~noteExists
         THEN form.confirmPassword = <<>>
              \/ (form.policyDirty /\ Len(form.policyErrors) > 0)
         ELSE FALSE

\* handlePasswordInput(event): the password field's content has changed to
\* `value`.
HandlePasswordInput(value) ==
    /\ ~ui.unlocked /\ value # ui.passwordInput
    /\ ui' = [ui EXCEPT !.passwordInput = value]
    /\ form' = IF noteExists
               THEN [form EXCEPT !.policyDirty = TRUE, !.policyErrors = <<>>]
               ELSE [form EXCEPT !.policyDirty = TRUE, !.policyErrors = <<>>,
                                 !.policyChecking = TRUE,
                                 !.debounceTimer = [pending |-> TRUE, value |-> value]]
    /\ UNCHANGED <<localStorage, tasks, codecVars, policyVars>>

\* The confirmation field's v-model, with the watcher of confirmPassword.
SetConfirmPassword(value) ==
    /\ ~ui.unlocked /\ ~noteExists /\ value # form.confirmPassword
    /\ form' = [form EXCEPT !.confirmPassword = value, !.confirmMismatch = FALSE]
    /\ UNCHANGED <<localStorage, ui, tasks, codecVars, policyVars>>

\* The debounce timer fires: runPolicyCheck(value), up to its await.
DebounceFires ==
    /\ ~ui.unlocked /\ form.debounceTimer.pending
    /\ LET password == form.debounceTimer.value
           fired == [form EXCEPT !.debounceTimer = NoTimer]
       IN  IF password = <<>>
           THEN form' = [fired EXCEPT !.policyErrors = <<>>]
           ELSE IF TooShort(password)
           THEN form' = [fired EXCEPT
                            !.policyErrors = validatePassword(password, [kind |-> "none"]),
                            !.policyChecking = FALSE]
           ELSE /\ Len(form.checks) < MaxChecks
                /\ form' = [fired EXCEPT
                                !.policyChecking = TRUE,
                                !.checks = Append(@, [kind |-> "runPolicyCheck",
                                                      password |-> password])]
    /\ UNCHANGED <<localStorage, ui, tasks, codecVars, policyVars>>

\* validatePassword settles in runPolicyCheck: the rest of it, with `finally`.
PolicyCheckSettles(i) ==
    /\ ~ui.unlocked
    /\ i \in DOMAIN form.checks /\ form.checks[i].kind = "runPolicyCheck"
    /\ \E response \in FormResponses(form.checks[i].password) :
          form' = [form EXCEPT
                      !.policyErrors = validatePassword(form.checks[i].password, response),
                      !.policyChecking = FALSE,
                      !.checks = Without(@, i)]
    /\ UNCHANGED <<localStorage, ui, tasks, codecVars, policyVars>>

\* handleCreate(), up to its await.
handleCreate ==
    IF ui.passwordInput # form.confirmPassword
    THEN form' = [form EXCEPT !.confirmMismatch = TRUE]
    ELSE IF TooShort(ui.passwordInput)
    THEN form' = [form EXCEPT
                     !.confirmMismatch = FALSE,
                     !.policyErrors = validatePassword(ui.passwordInput, [kind |-> "none"]),
                     !.policyChecking = FALSE]
    ELSE /\ Len(form.checks) < MaxChecks
         /\ form' = [form EXCEPT
                         !.confirmMismatch = FALSE,
                         !.policyChecking = TRUE,
                         !.checks = Append(@, [kind |-> "handleCreate",
                                               password |-> ui.passwordInput])]

\* A click on 'Create Note'.
ClickCreate ==
    /\ ~ui.unlocked /\ ~noteExists /\ ~isSubmitDisabled
    /\ handleCreate
    /\ UNCHANGED <<localStorage, ui, tasks, codecVars, policyVars>>

\* Enter in the confirmation field.
EnterOnConfirm ==
    /\ ~ui.unlocked /\ ~noteExists
    /\ handleCreate
    /\ UNCHANGED <<localStorage, ui, tasks, codecVars, policyVars>>

\* validatePassword settles in handleCreate: the rest of it, with `finally`,
\* and the editor's handleUnlock on its emit.
HandleCreateSettles(i) ==
    /\ ~ui.unlocked
    /\ i \in DOMAIN form.checks /\ form.checks[i].kind = "handleCreate"
    /\ \E response \in FormResponses(form.checks[i].password) :
       LET errors == validatePassword(form.checks[i].password, response)
           settled == [form EXCEPT !.policyErrors = errors, !.policyChecking = FALSE,
                                   !.checks = Without(@, i)]
       IN  IF validationResult(errors).valid
           THEN /\ (ui.passwordInput # <<>> /\ hasNote) => Len(tasks) < MaxUnlocks
                /\ handleUnlock([settled EXCEPT
                                     !.created = [emitted |-> TRUE,
                                                  validated |-> form.checks[i].password,
                                                  modelValue |-> ui.passwordInput,
                                                  confirmPassword |-> form.confirmPassword]])
           ELSE form' = settled /\ UNCHANGED <<ui, tasks>>
    /\ UNCHANGED <<localStorage, codecVars, policyVars>>

\* Enter in the password field while a note exists: 'unlock'.
EnterOnPassword ==
    /\ ~ui.unlocked /\ noteExists
    /\ (ui.passwordInput # <<>>) => Len(tasks) < MaxUnlocks
    /\ handleUnlock(form)
    /\ UNCHANGED <<localStorage, codecVars, policyVars>>

\* A click on 'Decrypt & Open': 'unlock'.
ClickUnlock ==
    /\ ~ui.unlocked /\ noteExists /\ ~isSubmitDisabled
    /\ Len(tasks) < MaxUnlocks
    /\ handleUnlock(form)
    /\ UNCHANGED <<localStorage, codecVars, policyVars>>

InitForm ==
    /\ hasBuffer = FALSE
    /\ input = [plaintext |-> <<>>, password |-> PW, aad |-> AAD_NOTE]
    /\ enc = NoToken
    /\ call = NoCall
    /\ pol = NoValidation
    /\ AppAtRest

\* The sessions that create a note: the user fills the form in, opens the
\* editor and locks it, and saves nothing.
NextForm ==
    \/ \E value \in FormPasswords : HandlePasswordInput(value)
    \/ \E value \in FormPasswords : SetConfirmPassword(value)
    \/ DebounceFires
    \/ \E i \in 1..MaxChecks : PolicyCheckSettles(i)
    \/ ClickCreate
    \/ EnterOnConfirm
    \/ \E i \in 1..MaxChecks : HandleCreateSettles(i)
    \/ HandleLock

SpecForm == InitForm /\ [][NextForm]_vars

InitUnlock ==
    /\ hasBuffer = FALSE
    /\ input = [plaintext |-> <<>>, password |-> PW, aad |-> AAD_NOTE]
    /\ enc = NoToken
    /\ call = NoCall
    /\ pol = NoValidation
    /\ localStorage \in { [k \in {STORAGE_KEY} |-> <<item>>] :
                             item \in {STORED_NOTE, TamperTail(STORED_NOTE)} }
    /\ ui = FreshUi
    /\ tasks = <<>>
    /\ form = FreshForm

\* The sessions on a note of an earlier session: the user types the password,
\* unlocks with Enter or with the button, locks and drops, and neither saves
\* nor creates a note.
NextUnlock ==
    \/ \E value \in FormPasswords : HandlePasswordInput(value)
    \/ EnterOnPassword
    \/ ClickUnlock
    \/ \E i \in 1..MaxUnlocks : LoadNoteSettles(i)
    \/ HandleLock
    \/ RequestDrop
    \/ CancelDrop
    \/ HandleDrop

SpecUnlock == InitUnlock /\ [][NextUnlock]_vars

(***************************************************************************)
(* simpleEncryption.ts: the module that keeps the salt, the iv and the     *)
(* ciphertext as three base64 strings joined by ':'.                       *)
(***************************************************************************)
\* atob(b64), by the forgiving-base64 decoding of the HTML standard: ASCII
\* white space is dropped; one or two '=' at the end are dropped when the
\* length is a multiple of four; it throws when one sextet is left over or
\* when a character outside the alphabet remains.
AtobData(b64) ==
    LET s == SelectSeq(b64, LAMBDA c : c \notin {9, 10, 12, 13, 32})
        n == Len(s)
    IN  IF n > 0 /\ n % 4 = 0 /\ s[n] = PAD
        THEN IF s[n - 1] = PAD THEN SubSeq(s, 1, n - 2) ELSE SubSeq(s, 1, n - 1)
        ELSE s
AtobThrows(b64) ==
    LET d == AtobData(b64)
    IN  Len(d) % 4 = 1 \/ \E i \in DOMAIN d : ~IsB64Char(d[i])

\* base64ToBuffer(b64): the error atob throws ("" when it returns) and the
\* bytes.
base64ToBuffer(b64) ==
    IF AtobThrows(b64) THEN [thrown |-> "InvalidCharacterError", bytes |-> <<>>]
    ELSE [thrown |-> "", bytes |-> toUint8Array(AtobData(b64))]

\* bufferToBase64(buffer): btoa of the bytes.
bufferToBase64(buffer) == fromUint8Array(buffer)

\* simpleEncryption's deriveKey(password, salt): PBKDF2 over the password's
\* UTF-8 bytes and the salt; the key is the pair it is derived from.
simpleDeriveKey(password, salt) == [password |-> textToBuffer(password), salt |-> salt]

\* simpleEncryption's encryptField, given the salt and the iv it drew.
simpleEncryptFieldWith(salt, iv, plaintext, password, aad) ==
    LET key == simpleDeriveKey(password, salt)
        ciphertext == AesGcmEncrypt(key, iv, textToBuffer(aad), textToBuffer(plaintext))
    IN  bufferToBase64(salt) \o <<COLON>> \o bufferToBase64(iv) \o <<COLON>>
        \o bufferToBase64(ciphertext)

\* simpleEncryption's decryptField(encoded, password, aad): its outcome ("ok",
\* or the error it throws), the text it returns and the steps it ran.
simpleDecryptField(encoded, password, aad) ==
    LET parts == Split(encoded, COLON)
    IN  IF Len(parts) # 3
        THEN [outcome |-> "Invalid encrypted format", text |-> <<>>, steps |-> <<"split">>]
        ELSE LET salt == base64ToBuffer(parts[1])
                 iv == base64ToBuffer(parts[2])
                 ciphertext == base64ToBuffer(parts[3])
             IN  IF salt.thrown # "" \/ iv.thrown # "" \/ ciphertext.thrown # ""
                 THEN [outcome |-> "InvalidCharacterError", text |-> <<>>,
                       steps |-> <<"split", "base64ToBuffer">>]
                 ELSE LET key == simpleDeriveKey(password, salt.bytes)
                          opened == AesGcmDecrypt(key, iv.bytes, textToBuffer(aad),
                                                  ciphertext.bytes)
                      IN  IF opened.ok
                          THEN [outcome |-> "ok", text |-> bufferToText(opened.plain),
                                steps |-> <<"split", "base64ToBuffer", "deriveKey", "decrypt">>]
                          ELSE [outcome |-> "OperationError", text |-> <<>>,
                                steps |-> <<"split", "base64ToBuffer", "deriveKey", "decrypt">>]

\* Variant of simpleEncryption's isEncrypted that does not count the parts.
simpleIsEncrypted_AnyCount(value) ==
    LET parts == Split(value, COLON)
    IN  \A i \in DOMAIN parts : Len(parts[i]) > 0

\* simpleEncryption's isEncrypted(value): exactly three parts, none empty.
simpleIsEncrypted(value) ==
    LET parts == Split(value, COLON)
    IN  Len(parts) = 3 /\ \A i \in DOMAIN parts : Len(parts[i]) > 0

(***************************************************************************)
(* isEncrypted and decryptField of both modules on the same strings.       *)
(***************************************************************************)
MaxFormatLen == 5

\* 'A', ':', '!' and '='
FormatChars == {65, COLON, 33, PAD}
\* The note "a" under "password", as simpleEncryption's encryptField returns it.
SIMPLE_NOTE ==
    simpleEncryptFieldWith([i \in 1..SALT_LEN |-> 255], [i \in 1..IV_LEN |-> 255],
                           <<97>>, PASSWORD, AAD_NOTE)
\* Every short string of the four characters; the tokens of both modules,
\* whole, cut short, reworded and with a part emptied; "AA:AA:AA".
FormatValues ==
    SeqsUpTo(FormatChars, MaxFormatLen)
    \cup { STORED_NOTE, SIMPLE_NOTE, SIMPLE_NOTE \o <<COLON>>, <<COLON>> \o SIMPLE_NOTE,
           SubSeq(SIMPLE_NOTE, 1, Len(SIMPLE_NOTE) - 1),
           SelectSeq(SIMPLE_NOTE, LAMBDA c : c # COLON),
           SelectSeq(SIMPLE_NOTE, LAMBDA c : c = COLON),
           <<65, 65, COLON, 65, 65, COLON, 65, 65>> }
    \cup Rewordings(STORED_NOTE) \cup NonTokens(STORED_NOTE)

InitFormat ==
    /\ hasBuffer \in BOOLEAN
    /\ input \in { [plaintext |-> <<>>, password |-> PASSWORD, aad |-> AAD_NOTE, value |-> v] :
                      v \in FormatValues }
    /\ enc = NoToken
    /\ call = NoCall
    /\ pol = NoValidation
    /\ AppAtRest

\* encryption.ts: isEncrypted(value)
BlobIsEncrypted ==
    /\ call = NoCall
    /\ call' = [module |-> "encryption", op |-> "isEncrypted", value |-> input.value,
                result |-> isEncrypted(input.value, hasBuffer).result]
    /\ UNCHANGED <<hasBuffer, input, enc, policyVars, appVars>>

\* encryption.ts: decryptField(value, password, aad)
BlobDecryptField ==
    /\ call = NoCall
    /\ LET r == decryptField(input.value, input.password, input.aad, hasBuffer)
       IN  call' = [module |-> "encryption", op |-> "decryptField", value |-> input.value,
                    outcome |-> r.outcome, text |-> r.text, steps |-> r.steps]
    /\ UNCHANGED <<hasBuffer, input, enc, policyVars, appVars>>

\* simpleEncryption.ts: isEncrypted(value)
SimpleIsEncrypted ==
    /\ call = NoCall
    /\ call' = [module |-> "simpleEncryption", op |-> "isEncrypted", value |-> input.value,
                result |-> simpleIsEncrypted(input.value)]
    /\ UNCHANGED <<hasBuffer, input, enc, policyVars, appVars>>

\* simpleEncryption.ts: decryptField(value, password, aad)
SimpleDecryptField ==
    /\ call = NoCall
    /\ LET r == simpleDecryptField(input.value, input.password, input.aad)
       IN  call' = [module |-> "simpleEncryption", op |-> "decryptField",
                    value |-> input.value,
                    outcome |-> r.outcome, text |-> r.text, steps |-> r.steps]
    /\ UNCHANGED <<hasBuffer, input, enc, policyVars, appVars>>

NextFormat ==
    \/ BlobIsEncrypted
    \/ BlobDecryptField
    \/ SimpleIsEncrypted
    \/ SimpleDecryptField
    \/ Return

SpecFormat == InitFormat /\ [][NextFormat]_vars

(***************************************************************************)
(* encryptField and decryptField as their callers run them: a call runs to *)
(* its next await in one step, and other calls may run between its steps.  *)
(* The awaits are argon2id and importKey (in deriveKey) and                *)
(* crypto.subtle.encrypt or decrypt. What a call holds between its steps   *)
(* is its own arguments and local constants; the module has no variable of *)
(* its own.                                                                *)
(***************************************************************************)
MaxCalls == 2

CallTexts == { <<97>>, <<BOM, 97>> }
CallPasswords == { PASSWORD, TROUBADOR }
CallBlobs == { STORED_NOTE, TamperTail(STORED_NOTE) }

InitCalls ==
    /\ hasBuffer = FALSE
    /\ input = [plaintext |-> <<>>, password |-> PW, aad |-> AAD_NOTE]
    /\ enc = NoToken
    /\ call = NoCall
    /\ pol = NoValidation
    /\ AppAtRest

\* encryptField(plaintext, password, aad) up to `await argon2id(...)`: it
\* draws its salt and its iv.
CallEncryptField(plaintext, password, aad, draw) ==
    /\ Len(tasks) < MaxCalls
    /\ tasks' = Append(tasks, [kind |-> "encryptField", pc |-> "argon2id",
                               plaintext |-> plaintext, password |-> password, aad |-> aad,
                               salt |-> draw.salt, iv |-> draw.iv])
    /\ UNCHANGED <<localStorage, ui, codecVars, policyVars, form>>

\* decryptField(encryptedBlob, password, aad) up to `await argon2id(...)`:
\* parseBlob and the three slices; what parseBlob throws rejects the call.
CallDecryptField(encryptedBlob, password, aad) ==
    /\ Len(tasks) < MaxCalls
    /\ LET parsed == parseBlob(encryptedBlob, hasBuffer)
           parts == SplitBlob(parsed.bytes)
       IN  tasks' = Append(tasks,
              IF parsed.thrown # ""
              THEN [kind |-> "decryptField", pc |-> "done",
                    encryptedBlob |-> encryptedBlob, password |-> password, aad |-> aad,
                    outcome |-> parsed.thrown, text |-> <<>>]
              ELSE [kind |-> "decryptField", pc |-> "argon2id",
                    encryptedBlob |-> encryptedBlob, password |-> password, aad |-> aad,
                    salt |-> parts.salt, iv |-> parts.iv, ciphertext |-> parts.ciphertext])
    /\ UNCHANGED <<localStorage, ui, codecVars, policyVars, form>>

\* With(call, fields): the call's record with the fields added or replaced.
With(rec, fields) ==
    [f \in DOMAIN rec \cup DOMAIN fields |-> IF f \in DOMAIN fields THEN fields[f] ELSE rec[f]]

\* argon2id settles in deriveKey: the call holds the hash of its own password
\* and salt, and deriveKey goes on to importKey.
Argon2idSettles(i) ==
    /\ i \in DOMAIN tasks /\ tasks[i].kind \in {"encryptField", "decryptField"}
    /\ tasks[i].pc = "argon2id"
    /\ tasks' = [tasks EXCEPT ![i] =
                    With(@, [pc |-> "importKey",
                             hashBytes |-> deriveKey(tasks[i].password, tasks[i].salt)])]
    /\ UNCHANGED <<localStorage, ui, codecVars, policyVars, form>>

\* importKey settles: deriveKey returns the key, and the call goes on to
\* crypto.subtle.encrypt or decrypt.
ImportKeySettles(i) ==
    /\ i \in DOMAIN tasks /\ tasks[i].kind \in {"encryptField", "decryptField"}
    /\ tasks[i].pc = "importKey"
    /\ tasks' = [tasks EXCEPT ![i] = With(@, [pc |-> "cipher", key |-> tasks[i].hashBytes])]
    /\ UNCHANGED <<localStorage, ui, codecVars, policyVars, form>>

\* crypto.subtle.encrypt settles: encryptField returns its token.
EncryptSettles(i) ==
    /\ i \in DOMAIN tasks /\ tasks[i].kind = "encryptField" /\ tasks[i].pc = "cipher"
    /\ LET c == tasks[i]
           ciphertext == AesGcmEncrypt(c.key, c.iv, additionalDataOf(c.aad),
                                       textToBuffer(c.plaintext))
       IN  tasks' = [tasks EXCEPT ![i] =
                       With(c, [pc |-> "done",
                                token |-> concatToBase64(<<c.salt, c.iv, ciphertext>>)])]
    /\ UNCHANGED <<localStorage, ui, codecVars, policyVars, form>>

\* crypto.subtle.decrypt settles: decryptField returns the text, or rejects.
DecryptSettles(i) ==
    /\ i \in DOMAIN tasks /\ tasks[i].kind = "decryptField" /\ tasks[i].pc = "cipher"
    /\ LET c == tasks[i]
           opened == AesGcmDecrypt(c.key, c.iv, additionalDataOf(c.aad), c.ciphertext)
       IN  tasks' = [tasks EXCEPT ![i] =
                       With(c, IF opened.ok
                               THEN [pc |-> "done", outcome |-> "ok",
                                     text |-> bufferToText(opened.plain)]
                               ELSE [pc |-> "done", outcome |-> "OperationError",
                                     text |-> <<>>])]
    /\ UNCHANGED <<localStorage, ui, codecVars, policyVars, form>>

\* The caller takes the result of a call that has settled.
CallReturns(i) ==
    /\ i \in DOMAIN tasks /\ tasks[i].kind \in {"encryptField", "decryptField"}
    /\ tasks[i].pc = "done"
    /\ tasks' = Without(tasks, i)
    /\ UNCHANGED <<localStorage, ui, codecVars, policyVars, form>>

NextCalls ==
    \/ \E plaintext \in CallTexts, password \in CallPasswords, draw \in Draws :
          CallEncryptField(plaintext, password, AAD_NOTE, draw)
    \/ \E blob \in CallBlobs \cup {TOOSHORT}, password \in CallPasswords :
          CallDecryptField(blob, password, AAD_NOTE)
    \/ \E i \in 1..MaxCalls : Argon2idSettles(i)
    \/ \E i \in 1..MaxCalls : ImportKeySettles(i)
    \/ \E i \in 1..MaxCalls : EncryptSettles(i)
    \/ \E i \in 1..MaxCalls : DecryptSettles(i)
    \/ \E i \in 1..MaxCalls : CallReturns(i)

SpecCalls == InitCalls /\ [][NextCalls]_vars

(***************************************************************************)
(* Properties of the encryption module.                                    *)
(***************************************************************************)
IsDecrypt == call.op = "decryptField"
\* The call in hand decrypts the latest token with encryptField's own
\* password and aad.
SameKeyAndAad == call.password = enc.password /\ call.aad = enc.aad
Rejected(outcome) == outcome \in {"Invalid encrypted format", "InvalidCharacterError"}

\* C1: decryptField(encryptField(P, K, A), K, A) returns exactly
\* P, for every plaintext P, password K and aad A.
C1_RoundTrip ==
    (IsDecrypt /\ call.how = "token" /\ SameKeyAndAad)
        => (call.outcome = "ok" /\ call.text = enc.plaintext)

\* C2: decryptField of a token fails whenever the password is
\* not encryptField's password or the aad is not encryptField's aad.
C2_WrongKeyOrAadFails ==
    (IsDecrypt /\ call.how = "token" /\ ~SameKeyAndAad) => call.outcome = "OperationError"

\* C2 on the encoded bytes: decryptField of a token fails with the tag mismatch
\* whenever the password or the aad differs from encryptField's in its UTF-8
\* bytes, and then returns no text.
C2_WrongKeyOrAadBytesFail ==
    (IsDecrypt /\ call.how = "token"
       /\ (textToBuffer(call.password) # textToBuffer(enc.password)
           \/ textToBuffer(call.aad) # textToBuffer(enc.aad)))
        => (call.outcome = "OperationError" /\ call.text = <<>>)

C2_Witness ==
    /\ IsDecrypt /\ call.how = "token"
    /\ call.password # enc.password /\ call.aad = enc.aad
    /\ call.outcome = "OperationError"

\* C3: no token modified after encryptField decrypts
\* successfully under encryptField's password and aad.
C3_NoModifiedTokenDecrypts ==
    (IsDecrypt /\ call.how \in {"byte", "tail", "text"} /\ call.blob # enc.token)
        => call.outcome # "ok"

\* C3 on the decoded bytes: a token with one byte of its blob (salt, nonce or
\* ciphertext) changed never decrypts, and a token modified in any way
\* decrypts only if it still decodes to the bytes of the token issued.
C3_TamperDetected ==
    /\ (IsDecrypt /\ call.how = "byte") => call.outcome = "OperationError"
    /\ (IsDecrypt /\ call.how \in {"byte", "tail", "text"} /\ call.outcome = "ok")
          => toUint8Array(call.blob) = toUint8Array(enc.token)

C3_Witness ==
    /\ IsDecrypt /\ call.how = "byte" /\ call.pos <= SALT_LEN
    /\ call.blob # enc.token
    /\ call.outcome = "OperationError"

DecodesShort(str) ==
    ~Base64Throws(str, hasBuffer) /\ Len(toUint8Array(str)) < SALT_LEN + IV_LEN + 1
C5_ShortRejected ==
    /\ (IsDecrypt /\ DecodesShort(call.blob))
          => (call.outcome = "Invalid encrypted format" /\ call.steps = <<"parseBlob">>)
    /\ (call.op = "isEncrypted" /\ DecodesShort(call.value)) => ~call.result

C5_Witness ==
    /\ IsDecrypt /\ ~Base64Throws(call.blob, hasBuffer)
    /\ Len(toUint8Array(call.blob)) = SALT_LEN + IV_LEN
    /\ call.outcome = "Invalid encrypted format"

\* C6: a string with a character outside the base64 alphabet
\* (and its padding) fails to decode whatever its length, and isEncrypted
\* is false for it.
HasForeignChar(str) == \E i \in 1..Len(str) : ~IsB64Char(str[i]) /\ str[i] # PAD
C6_ForeignCharRejected ==
    /\ (IsDecrypt /\ HasForeignChar(call.blob)) => Rejected(call.outcome)
    /\ (call.op = "isEncrypted" /\ HasForeignChar(call.value)) => ~call.result

\* C7: the token decodes to salt, nonce and ciphertext in this order, and
\* decryptField's slices at 16 and 28 give back the three arrays encryptField
\* framed.
C7_FramingLossless ==
    call.op = "encryptField" =>
        LET raw == toUint8Array(enc.token)
        IN  /\ raw = enc.salt \o enc.iv \o enc.ciphertext
            /\ Len(enc.salt) = 16 /\ Len(enc.iv) = 12
            /\ SplitBlob(raw) = [salt |-> enc.salt, iv |-> enc.iv, ciphertext |-> enc.ciphertext]

C7_Witness ==
    /\ call.op = "encryptField" /\ Len(enc.ciphertext) = TAG_LEN + 4
    /\ enc.salt # [i \in 1..SALT_LEN |-> 255]
    /\ SplitBlob(toUint8Array(enc.token)).iv = enc.iv

\* C8: isEncrypted is true for every token encryptField returned and false
\* for the empty string, and runs neither deriveKey nor a decryption.
C8_IsEncrypted ==
    call.op = "isEncrypted" =>
        /\ call.value = enc.token => call.result
        /\ call.value = <<>> => ~call.result
        /\ \A i \in 1..Len(call.steps) : call.steps[i] \notin {"deriveKey", "decrypt"}

C8_Witness ==
    /\ call.op = "isEncrypted" /\ call.value = enc.token
    /\ enc.plaintext = <<>> /\ call.result

(***************************************************************************)
(* Properties of the note editor.                                          *)
(***************************************************************************)
\* The tokens encryptField can return to the saveNote in flight at place i.
TokensFor(i) ==
    { encryptFieldWith(d.salt, d.iv, tasks[i].plaintext, tasks[i].password, AAD_NOTE).token :
        d \in Draws }

\* This step stores v under the note's key, for the saveNote in flight at i.
Stores(i, v) ==
    /\ tasks[i].kind = "saveNote"
    /\ v \in TokensFor(i)
    /\ v # tasks[i].plaintext /\ v # tasks[i].password
    /\ v # textToBuffer(tasks[i].plaintext) /\ v # textToBuffer(tasks[i].password)
    /\ isEncrypted(v, hasBuffer).result

\* C9: every step that changes what is stored under the note's key either
\* removes the item or stores a token that encryptField returned to a saveNote
\* in flight, for that call's text and password; the value stored is neither
\* the text nor the password, as strings or as their UTF-8 bytes.
C9_OnlyTokensStored ==
    [][ localStorage'[STORAGE_KEY] # localStorage[STORAGE_KEY]
          => \/ localStorage'[STORAGE_KEY] = <<>>
             \/ /\ Len(localStorage'[STORAGE_KEY]) = 1
                /\ \E i \in DOMAIN tasks : Stores(i, localStorage'[STORAGE_KEY][1]) ]_vars

\* A note stored by a save that was abandoned: the editor was locked while
\* the save was in flight.
C9_Witness ==
    /\ HasItem(STORAGE_KEY) /\ hasNote
    /\ ~ui.unlocked /\ ui.passwordInput = <<>> /\ ui.saveStatus = "Saved."

(***************************************************************************)
(* Properties of the password policy.                                      *)
(***************************************************************************)
\* The lookup in hand failed: the digest, the fetch or the body's read threw,
\* the response was not OK, or its body holds no row of the range API.
LookupFailed ==
    /\ pol.phase = "done" /\ pol.looked
    /\ \/ pol.response.kind # "ok"
       \/ MalformedBody(pol.response.text)

\* C10: whenever the breach lookup fails (network error, non-OK
\* response, malformed body), checkPwnedPassword returns 0 and validatePassword
\* reports no breach error for a password of at least 8 characters.
C10_LookupFailureIsNoMatch ==
    LookupFailed => (pol.returned = Number(0) /\ pol.errors = <<>>)

(***************************************************************************)
(* Properties of the password policy.                                      *)
(***************************************************************************)
Contains(str, sub) ==
    \E i \in 0..(Len(str) - Len(sub)) : SubSeq(str, i + 1, i + Len(sub)) = sub

\* Some row of the body names the password's suffix, letter case and the
\* white space around it aside.
RowNamesSuffix(text, password) ==
    \E i \in DOMAIN Split(text, LF) :
        ToUpperCase(Trim(Split(Split(text, LF)[i], COLON)[1])) = SubSeq(hashHex(password), 6, 40)

\* C11: every request of a breach lookup carries the first five hex
\* characters of the password's hash and nothing else of the hash or of the
\* password (a call makes at most one request, to the range URL, with the
\* padding header only), and a count other than zero comes from a row of the
\* response whose suffix the caller itself matched.
C11_OnlyPrefixSent ==
    pol.phase = "done" =>
        /\ Len(pol.sent) <= 1
        /\ \A i \in DOMAIN pol.sent :
            /\ pol.sent[i].base = RANGE_URL
            /\ pol.sent[i].headers = { <<"Add-Padding", "true">> }
            /\ Len(pol.sent[i].range) = 5
            /\ pol.sent[i].range = SubSeq(hashHex(pol.password), 1, 5)
            /\ \A k \in 1..35 :
                   ~Contains(pol.sent[i].range, SubSeq(hashHex(pol.password), k, k + 5))
            /\ ~Contains(pol.sent[i].range, pol.password)
        /\ (pol.looked /\ pol.returned # Number(0)) =>
               /\ pol.response.kind = "ok"
               /\ RowNamesSuffix(pol.response.text, pol.password)

\* A lookup sent its one request and found the password on a row with count 3.
C11_Witness ==
    /\ pol.phase = "done" /\ pol.looked
    /\ Len(pol.sent) = 1
    /\ pol.sent[1].range = <<53, 66, 65, 65, 54>>
    /\ pol.password = PASSWORD
    /\ pol.returned = Number(3)

\* The lookup reports an occurrence: it ran and returned a count other than
\* zero (NaN is no count).
ReportsOccurrence == pol.looked /\ ~pol.returned.nan /\ pol.returned.n # 0

\* C12: validatePassword returns valid = true exactly when errors is empty,
\* which is exactly when the password has at least 8 characters and the
\* lookup reports no occurrence; a password under 8 characters gets the
\* minimum-length error alone, and a breached password of 8 characters or
\* more gets the breach error alone.
C12_ValidIffNoErrors ==
    pol.phase = "done" =>
        /\ pol.valid <=> (pol.errors = <<>>)
        /\ pol.valid <=> (Len(pol.password) >= 8 /\ ~ReportsOccurrence)
        /\ Len(pol.password) < 8 => pol.errors = << [rule |-> "length"] >>
        /\ (Len(pol.password) >= 8 /\ ReportsOccurrence) =>
               (Len(pol.errors) = 1 /\ pol.errors[1].rule = "breach")

\* "password" was looked up, found 12 times, and refused with the breach
\* error alone.
C12_Witness ==
    /\ pol.phase = "done" /\ pol.password = PASSWORD
    /\ pol.looked /\ pol.returned = Number(12)
    /\ ~pol.valid
    /\ pol.errors = << [rule |-> "breach", times |-> 12] >>

\* The criteria the password satisfies, among: 1 to 3, a length of at least
\* 8, 12, 16; 4 to 7, an upper-case letter, a lower-case letter, a digit, a
\* character that is none of these.
IsUpperCase(c) == c \in 65..90
IsLowerCase(c) == c \in 97..122
Satisfied(password) ==
    { n \in 1..3 : Len(password) >= 4 + 4 * n }
    \cup (IF \E i \in DOMAIN password : IsUpperCase(password[i]) THEN {4} ELSE {})
    \cup (IF \E i \in DOMAIN password : IsLowerCase(password[i]) THEN {5} ELSE {})
    \cup (IF \E i \in DOMAIN password : password[i] \in 48..57 THEN {6} ELSE {})
    \cup (IF \E i \in DOMAIN password :
                ~IsUpperCase(password[i]) /\ ~IsLowerCase(password[i]) /\ password[i] \notin 48..57
          THEN {7} ELSE {})
LevelOfScore == [n \in 0..4 |-> <<"weak", "weak", "fair", "good", "strong">>[n + 1]]

\* C13: getPasswordStrength makes no request and depends on the password
\* alone: score 0 and weak for the empty password; otherwise, by the number of
\* satisfied criteria, score 1 weak up to 2, score 2 fair for 3 and 4, score 3
\* good for 5, score 4 strong for 6 and 7; the score is in 0..4 and the level
\* is the score's.
C13_StrengthByCriteria ==
    pol.phase = "strength" =>
        LET count == Cardinality(Satisfied(pol.password))
            score == pol.strength.score
        IN  /\ pol.sent = <<>>
            /\ score \in 0..4
            /\ pol.strength.level = LevelOfScore[score]
            /\ score = (IF Len(pol.password) = 0 THEN 0
                        ELSE IF count <= 2 THEN 1
                        ELSE IF count <= 4 THEN 2
                        ELSE IF count = 5 THEN 3
                        ELSE 4)

\* Eight characters with an upper-case letter, a lower-case letter, a digit
\* and '!': five criteria, good.
C13_Witness ==
    /\ pol.phase = "strength"
    /\ Len(pol.password) = 8
    /\ Satisfied(pol.password) = {1, 4, 5, 6, 7}
    /\ pol.strength = [level |-> "good", score |-> 3, label |-> "Good"]

(***************************************************************************)
(* Properties of the note editor.                                          *)
(***************************************************************************)
\* Why the decryption of a loadNote in flight fails, "none" when the model
\* does not say: the stored note with another password, the item encrypted
\* for another aad, a tampered note.
FailureCause(task) ==
    IF task.stored = STORED_NOTE /\ textToBuffer(task.password) # textToBuffer(PASSWORD)
    THEN "wrong password"
    ELSE IF task.stored = STORED_OTHER_AAD THEN "wrong aad"
    ELSE IF task.stored \in STORED_TAMPERED THEN "tampered"
    ELSE "none"

\* C14: for a stored token of valid format, a loadNote whose decryption fails
\* ends the same way whatever the cause (a wrong password, another aad, a
\* tampered token): it returns null, so that the editor stays as it was, and
\* it sets the one message "Wrong password or corrupted data.".
C14_FailuresIndistinguishable ==
    [][\A i \in DOMAIN tasks :
          (/\ tasks[i].kind = "loadNote"
           /\ tasks' = Without(tasks, i)
           /\ isEncrypted(tasks[i].stored, hasBuffer).result
           /\ FailureCause(tasks[i]) # "none")
          => ui' = [ui EXCEPT !.loading = FALSE,
                              !.error = "Wrong password or corrupted data."]]_vars

\* The item encrypted for another aad was tried with the right password and
\* refused with the message of a wrong password.
C14_Witness ==
    /\ localStorage[STORAGE_KEY] = << STORED_OTHER_AAD >>
    /\ ui.passwordInput = PASSWORD
    /\ tasks = <<>>
    /\ ~ui.unlocked /\ ~ui.loading
    /\ ui.error = "Wrong password or corrupted data."

(***************************************************************************)
(* Properties of concurrent calls of the encryption module.                *)
(***************************************************************************)
Settled(i) == tasks[i].kind \in {"encryptField", "decryptField"} /\ tasks[i].pc = "done"

\* Every call that has settled returned what a call running alone returns for
\* its arguments (and, for encryptField, its draws).
C15_AsIfAlone ==
    \A i \in DOMAIN tasks :
        Settled(i) =>
            IF tasks[i].kind = "decryptField"
            THEN LET alone == decryptField(tasks[i].encryptedBlob, tasks[i].password,
                                           tasks[i].aad, hasBuffer)
                 IN  tasks[i].outcome = alone.outcome /\ tasks[i].text = alone.text
            ELSE tasks[i].token = encryptFieldWith(tasks[i].salt, tasks[i].iv, tasks[i].plaintext,
                                                   tasks[i].password, tasks[i].aad).token

\* C15: with any number of encryptField and decryptField calls in flight, in
\* any interleaving of their awaits, each decryptField call returns what its
\* own token, password and aad determine, and each encryptField call returns
\* a token that decrypts to its own plaintext under its own password and aad.
C15_CallsIndependent ==
    /\ C15_AsIfAlone
    /\ \A i \in DOMAIN tasks :
          (Settled(i) /\ tasks[i].kind = "encryptField") =>
              LET back == decryptField(tasks[i].token, tasks[i].password, tasks[i].aad, hasBuffer)
              IN  back.outcome = "ok" /\ back.text = tasks[i].plaintext

(***************************************************************************)
(* Properties of the editor's handlers in flight.                          *)
(***************************************************************************)
\* The saveNote and loadNote calls in flight.
NoteOperations == { i \in DOMAIN tasks : tasks[i].kind \in {"saveNote", "loadNote"} }

\* C21: note operations are serialized: under any sequence of clicks and
\* Enter presses, no saveNote or loadNote starts while an earlier one is in
\* flight, so at most one is in flight.
C21_Serialized == Cardinality(NoteOperations) <= 1

\* This step is the task at place i settling: it leaves, or (a save that
\* succeeded) turns into the timer of the status line.
Settles(i) ==
    /\ i \in DOMAIN tasks
    /\ \/ tasks' = Without(tasks, i)
       \/ tasks' = [tasks EXCEPT ![i] = [kind |-> "timer"]]

\* C22: a drop is durable: a saveNote that was in flight when handleDrop ran
\* does not write when it settles, so what is stored under the note's key
\* stays removed until a save started after the drop.
C22_DropDurable ==
    [][ \A i \in DOMAIN tasks :
          (tasks[i].kind = "saveNote" /\ tasks[i].stale /\ Settles(i))
              => localStorage' = localStorage ]_vars

\* C23: lock and drop end the credential's scope: a handleUnlock that was in
\* flight when handleLock or handleDrop ran neither opens the editor nor
\* puts decrypted text into noteText when its loadNote settles.
C23_ScopeEnded ==
    [][ \A i \in DOMAIN tasks :
          (tasks[i].kind = "loadNote" /\ tasks[i].stale /\ Settles(i))
              => (ui'.unlocked = ui.unlocked /\ ui'.noteText = ui.noteText) ]_vars

\* This step stores the token of the saveNote in flight at place i.
Wrote(i) ==
    /\ Len(localStorage'[STORAGE_KEY]) = 1
    /\ localStorage'[STORAGE_KEY][1] \in TokensFor(i)

\* C24: saveNote and loadNote do not throw, they settle: a saveNote either
\* stores its token or leaves what is stored as it is and sets error; a
\* loadNote whose decryption fails leaves what is stored as it is, sets
\* error and returns null, so that the editor stays closed and noteText as
\* it was; each of them leaves loading false.
C24_FailuresReported ==
    [][ \A i \in DOMAIN tasks :
          Settles(i) =>
            /\ tasks[i].kind = "saveNote" =>
                  /\ ~ui'.loading
                  /\ Wrote(i) \/ (localStorage' = localStorage /\ ui'.error # NULL)
            /\ (/\ tasks[i].kind = "loadNote"
                /\ decryptField(tasks[i].stored, tasks[i].password, AAD_NOTE,
                                hasBuffer).outcome # "ok") =>
                  /\ ~ui'.loading
                  /\ ui'.error # NULL
                  /\ localStorage' = localStorage
                  /\ ui'.unlocked = ui.unlocked /\ ui'.noteText = ui.noteText ]_vars

\* A save has failed on a stored note: the note is still stored, the error
\* shows and loading is over.
C24_Witness ==
    /\ ui.error = "Failed to save note." /\ ~ui.loading
    /\ ui.unlocked /\ hasNote /\ tasks = <<>>

\* What decryptField returns to the loadNote in flight at place i.
loadNoteResult(i) == decryptField(tasks[i].stored, tasks[i].password, AAD_NOTE, hasBuffer)

\* C25: while a note of valid format is stored, the editor opens only in the
\* step in which a loadNote settles with the decrypted text, and shows that
\* text; a loadNote whose decryption fails (wrong password, wrong aad,
\* corrupted token) leaves unlocked and noteText as they were.
C25_OpensOnlyDecrypted ==
    [][ hasNote =>
          /\ (~ui.unlocked /\ ui'.unlocked) =>
                \E i \in DOMAIN tasks :
                    /\ tasks[i].kind = "loadNote" /\ Settles(i)
                    /\ loadNoteResult(i).outcome = "ok"
                    /\ ui'.noteText = loadNoteResult(i).text
          /\ \A i \in DOMAIN tasks :
                (tasks[i].kind = "loadNote" /\ Settles(i) /\ loadNoteResult(i).outcome # "ok")
                    => (ui'.unlocked = ui.unlocked /\ ui'.noteText = ui.noteText) ]_vars

\* The right password on the note that was encrypted for another field: the
\* decryption has failed and the editor is closed.
C25_Witness ==
    /\ localStorage[STORAGE_KEY] = <<STORED_OTHER_AAD>> /\ hasNote
    /\ ui.passwordInput = PASSWORD /\ tasks = <<>>
    /\ ui.error = "Wrong password or corrupted data."
    /\ ~ui.unlocked /\ ui.noteText = <<>>

\* C26: the editor opens with the password its unlock was started with: in
\* the step that opens it, passwordInput is not empty and, when a loadNote
\* settles in that step, is the password that loadNote decrypted with. (The
\* field is not shown while the editor is open, so handleSave encrypts with
\* what passwordInput holds at that step.)
C26_PasswordOfUnlock ==
    [][ (~ui.unlocked /\ ui'.unlocked) =>
          /\ ui'.passwordInput # <<>>
          /\ \A i \in DOMAIN tasks :
                (tasks[i].kind = "loadNote" /\ Settles(i))
                    => ui'.passwordInput = tasks[i].password ]_vars

(***************************************************************************)
(* Properties of the UnlockForm.                                           *)
(***************************************************************************)
\* C27: with no note stored, the form emits 'unlock' only with a password
\* that, as the emit happens, equals the confirmation and is the password
\* that validatePassword has accepted.
C27_CreatedAsValidated ==
    form.created.emitted =>
        /\ form.created.modelValue = form.created.confirmPassword
        /\ form.created.modelValue = form.created.validated

\* No policy check is on its way: no debounce timer is pending and no
\* validatePassword is awaited.
PolicyQuiet == ~form.debounceTimer.pending /\ form.checks = <<>>

\* The errors validatePassword can return for a password.
ErrorsFor(password) ==
    { validatePassword(password, response) : response \in FormResponses(password) }

\* The check of the password in the field is in flight: the latest
\* runPolicyCheck awaited is for it, and no input has come since.
CurrentCheckInFlight ==
    /\ ~form.debounceTimer.pending
    /\ \E i \in DOMAIN form.checks :
          /\ form.checks[i].kind = "runPolicyCheck"
          /\ form.checks[i].password = ui.passwordInput
          /\ \A j \in DOMAIN form.checks : j > i => form.checks[j].kind # "runPolicyCheck"

\* The form shows, with no note stored and a password in its field.
Creating == ~ui.unlocked /\ ~noteExists /\ ui.passwordInput # <<>>

\* The first half of C28.
C28_LatestResult == (Creating /\ PolicyQuiet) => form.policyErrors \in ErrorsFor(ui.passwordInput)
\* The second half of C28.
C28_CheckingWhileInFlight == (Creating /\ CurrentCheckInFlight) => form.policyChecking

\* C28: once every policy check that was started has completed, policyErrors
\* is a result of validatePassword for the password last entered, whatever
\* the order in which the checks completed; and policyChecking is true for
\* as long as the check of that password is in flight.
C28_PolicyOfLatestInput == C28_LatestResult /\ C28_CheckingWhileInFlight

\* C29: with no note stored, policyChecking returns to false after the
\* last input, whatever was entered, an emptied field included: once no
\* debounce timer is pending and no check is awaited, policyChecking is
\* false.
C29_CheckingEnds == (~ui.unlocked /\ ~noteExists /\ PolicyQuiet) => ~form.policyChecking

(***************************************************************************)
(* Properties of the format checks.                                        *)
(***************************************************************************)
\* decryptField got past its format check: it threw neither 'Invalid
\* encrypted format' nor a decoding error.
PastFormatCheck(outcome) == outcome \notin {"Invalid encrypted format", "InvalidCharacterError"}

\* encryption.ts: isEncrypted(v) is true exactly when decryptField(v, ...)
\* gets past parseBlob.
BlobFormatAgrees ==
    /\ (call.op = "isEncrypted" /\ call.module = "encryption") =>
          call.result = PastFormatCheck(decryptField(call.value, input.password, input.aad,
                                                     hasBuffer).outcome)
    /\ (call.op = "decryptField" /\ call.module = "encryption") =>
          PastFormatCheck(call.outcome) = isEncrypted(call.value, hasBuffer).result

\* C30: in each of the two encryption modules, isEncrypted(v) is true
\* exactly when decryptField(v, password, aad) gets past its own format
\* check, for every string v.
C30_FormatAgrees ==
    /\ BlobFormatAgrees
    /\ (call.op = "isEncrypted" /\ call.module = "simpleEncryption") =>
          call.result = PastFormatCheck(simpleDecryptField(call.value, input.password,
                                                           input.aad).outcome)
    /\ (call.op = "decryptField" /\ call.module = "simpleEncryption") =>
          PastFormatCheck(call.outcome) = simpleIsEncrypted(call.value)

\* C30, amended: in encryption.ts, isEncrypted(v) is true exactly when
\* decryptField(v, password, aad) gets past parseBlob; in simpleEncryption.ts,
\* whenever isEncrypted(v) is true, decryptField(v, password, aad) does not
\* throw 'Invalid encrypted format'.
C30_FormatAgrees_Amended ==
    /\ BlobFormatAgrees
    /\ (call.op = "isEncrypted" /\ call.module = "simpleEncryption" /\ call.result) =>
          simpleDecryptField(call.value, input.password, input.aad).outcome
              # "Invalid encrypted format"
    /\ (call.op = "decryptField" /\ call.module = "simpleEncryption"
          /\ call.outcome = "Invalid encrypted format") =>
          ~simpleIsEncrypted(call.value)

\* simpleEncryption's isEncrypted has returned true for "A:A:A", which its
\* decryptField splits in three and then fails to decode.
C30_Witness ==
    /\ call.op = "isEncrypted" /\ call.module = "simpleEncryption" /\ call.result
    /\ call.value = <<65, COLON, 65, COLON, 65>>
    /\ simpleDecryptField(call.value, input.password, input.aad).outcome
          = "InvalidCharacterError"
====
